---------------------------- MODULE Spec2Model ----------------------------
(***************************************************************************)
(* GTM AI Ops Platform: the agent-run log (a CSV file), the loader that    *)
(* reads it into an in-memory table, the run emitters that append to it,   *)
(* the dashboard request handlers and the query sandbox.                   *)
(*                                                                         *)
(* Text that the program inspects character by character (query text,      *)
(* task context) is a sequence of one-character strings.  A CSV cell is a  *)
(* string; a Python / DataFrame value is a tagged record [k, s, n].        *)
(***************************************************************************)
EXTENDS Integers, Sequences, FiniteSets, TLC

VARIABLES file, resp

vars == <<file, resp>>

(***************************************************************************)
(* Bounds of the model.                                                    *)
(***************************************************************************)
\* most lines (header included) the log file grows to
MaxLines == 3
\* number of distinct values of uuid4().hex[:6] that are drawn
NumHex == 2
\* number of distinct wall-clock seconds that datetime.now() returns
MaxTime == 1
\* most fragments a sandbox query text is built from
MaxFrags == 3

Range(s) == {s[i] : i \in 1..Len(s)}

(***************************************************************************)
(* Values.  k is the type tag; s carries text, n carries a number: an int, *)
(* a float in hundredths, a bool as 0/1, a timestamp as a second index.    *)
(***************************************************************************)
StrV(t) == [k |-> "str", s |-> t, n |-> 0]
IntV(i) == [k |-> "int", s |-> "", n |-> i]
FloatV(c) == [k |-> "float", s |-> "", n |-> c]
BoolV(b) == [k |-> "bool", s |-> "", n |-> IF b THEN 1 ELSE 0]
TsV(t) == [k |-> "ts", s |-> "", n |-> t]
Null == [k |-> "null", s |-> "", n |-> 0]

\* Python's str() of a float with at most two decimals: shortest form, at
\* least one digit after the point
FloatText(c) ==
  LET f == c % 100
  IN ToString(c \div 100) \o "." \o
       (IF f % 10 = 0 THEN ToString(f \div 10)
        ELSE IF f < 10 THEN "0" \o ToString(f) ELSE ToString(f))

\* datetime.strftime("%Y-%m-%d %H:%M:%S") of the t-th second
TimeText(t) == "2026-01-01 08:00:0" \o ToString(t)

\* str(value), as csv.DictWriter applies it to every non-string value; None
\* is written as the empty cell
PyStr(v) ==
  CASE v.k = "str" -> v.s
    [] v.k = "int" -> ToString(v.n)
    [] v.k = "float" -> FloatText(v.n)
    [] v.k = "bool" -> IF v.n = 1 THEN "True" ELSE "False"
    [] OTHER -> ""

(***************************************************************************)
(* log_agent_run: the canonical column list and the append.               *)
(***************************************************************************)
fieldnames ==
  <<"run_id", "timestamp", "user_id", "task_type", "agent_version",
    "resolution_time_seconds", "user_accepted", "user_rating", "abstained",
    "error_occurred", "lead_source", "crm_stage", "opportunity_value",
    "workflow_stage", "time_saved_minutes", "prompt_version">>

\* csv.DictWriter.writerow: one cell per name of cols, in that order
WriteRow(cols, run_data) == [j \in 1..Len(cols) |-> PyStr(run_data[cols[j]])]

NoFile == [exists |-> FALSE, lines |-> <<>>]

\* open(csv_path, "a"): the header is written only when the file did not
\* exist; the row always has one cell per canonical column
\* the append without the file_exists test: a header before every row
log_agent_run_always_header(f, run_data) ==
  [exists |-> TRUE,
   lines |-> f.lines \o <<fieldnames, WriteRow(fieldnames, run_data)>>]

log_agent_run(f, run_data) ==
  [exists |-> TRUE,
   lines |-> (IF f.exists THEN f.lines ELSE <<fieldnames>>)
               \o <<WriteRow(fieldnames, run_data)>>]

(***************************************************************************)
(* pandas.read_csv and DataLoader.load_csv_to_db.                          *)
(***************************************************************************)
NaTexts ==
  {"", "#N/A", "#N/A N/A", "#NA", "-1.#IND", "-1.#QNAN", "-NaN", "-nan",
   "1.#IND", "1.#QNAN", "<NA>", "N/A", "NA", "NULL", "NaN", "None", "n/a",
   "nan", "null"}

\* the texts that parse as an integer, a float, a timestamp, and the parse
IntTexts == {ToString(i) : i \in {0, 1, 2, 3, 4, 5, 25000}}
FloatTexts == {FloatText(c) : c \in {0, 125, 347, 375, 380, 520, 750, 1250}}
TimeTexts == {TimeText(i) : i \in 1..9}
IntOf == [t \in IntTexts |-> CHOOSE i \in {0, 1, 2, 3, 4, 5, 25000} : ToString(i) = t]
FloatOf == [t \in FloatTexts |-> CHOOSE c \in {0, 125, 347, 375, 380, 520, 750, 1250} : FloatText(c) = t]
TimeOf == [t \in TimeTexts |-> CHOOSE i \in 1..9 : TimeText(i) = t]

IsIntText(t) == t \in IntTexts
IsNumText(t) == t \in IntTexts \/ t \in FloatTexts
IsBoolText(t) == t \in {"True", "TRUE", "true"} \cup {"False", "FALSE", "false"}

\* the dtype read_csv infers for a column from its cells: int64 when every
\* cell is an integer, float64 when every cell is a number or NA, bool when
\* every cell is a truth word, object otherwise
ColKind(cells) ==
  LET present == {c \in Range(cells) : c \notin NaTexts}
  IN IF cells = <<>> THEN "str"
     ELSE IF present = Range(cells) /\ \A c \in present : IsIntText(c) THEN "int"
     ELSE IF \A c \in present : IsNumText(c) THEN "float"
     ELSE IF \A c \in present : IsBoolText(c) THEN "bool"
     ELSE "str"

ConvertCell(kind, t) ==
  IF t \in NaTexts THEN Null
  ELSE CASE kind = "int" -> IntV(IntOf[t])
         [] kind = "float" ->
              IF IsIntText(t) THEN FloatV(100 * IntOf[t]) ELSE FloatV(FloatOf[t])
         [] kind = "bool" -> BoolV(t \in {"True", "TRUE", "true"})
         [] OTHER -> StrV(t)

\* pd.to_datetime on one value of the timestamp column
CanDatetime(v) ==
  \/ v.k \in {"null", "int", "float"}
  \/ v.k = "str" /\ v.s \in TimeTexts
ToDatetime(v) ==
  IF v.k = "str" THEN TsV(TimeOf[v.s])
  ELSE IF v.k = "null" THEN Null
  ELSE TsV(0)

OptionalCols == {"workflow_stage", "time_saved_minutes", "prompt_version"}

\* the defaults with prompt_version filled by the tag the emitters write
DefaultFor_current_version(col) ==
  CASE col = "workflow_stage" -> StrV("Pipeline Generation")
    [] col = "time_saved_minutes" -> FloatV(0)
    [] col = "prompt_version" -> StrV("v2.0")

\* lines 21-27: the value given to a column the file does not have
DefaultFor(col) ==
  CASE col = "workflow_stage" -> StrV("Pipeline Generation")
    [] col = "time_saved_minutes" -> FloatV(0)
    [] col = "prompt_version" -> StrV("v1.0")

Loaded(t) == [ok |-> TRUE, error |-> "None", table |-> t]
LoadError(e) == [ok |-> FALSE, error |-> e, table |-> <<>>]

\* read_csv: the first line names the columns.  A first data line with more
\* cells than names turns its leading cells into the index and shifts the
\* rest under the names; a later line longer than that is a ParserError; a
\* shorter line is padded with NA.  Then lines 19-27 of load_csv_to_db.
load_csv_to_db(f) ==
  IF f.lines = <<>> THEN LoadError("EmptyDataError")
  ELSE
    LET header == f.lines[1]
        rows == Tail(f.lines)
        lead == IF rows # <<>> /\ Len(rows[1]) > Len(header)
                THEN Len(rows[1]) - Len(header) ELSE 0
        width == Len(header) + lead
        Cell(i, j) == IF lead + j <= Len(rows[i]) THEN rows[i][lead + j] ELSE ""
        names == Range(header)
        Pos == [col \in names |-> CHOOSE j \in 1..Len(header) : header[j] = col]
        Kind(col) == ColKind([i \in 1..Len(rows) |-> Cell(i, Pos[col])])
        Raw(i, col) == ConvertCell(Kind(col), Cell(i, Pos[col]))
        ts_kind == Kind("timestamp")
        ts_raw == [i \in 1..Len(rows) |-> ConvertCell(ts_kind, Cell(i, Pos["timestamp"]))]
        Value(i, col) ==
          IF col \in names
          THEN IF col = "timestamp" THEN ToDatetime(ts_raw[i]) ELSE Raw(i, col)
          ELSE DefaultFor(col)
        cols == names \cup OptionalCols
    IN IF \E i \in 2..Len(rows) : Len(rows[i]) > width
         THEN LoadError("ParserError")
       ELSE IF "timestamp" \notin names
         THEN LoadError("KeyError")
       ELSE IF ts_kind = "bool" \/ \E i \in 1..Len(rows) : ~CanDatetime(ts_raw[i])
         THEN LoadError("ValueError")
       ELSE Loaded([i \in 1..Len(rows) |-> [col \in cols |-> Value(i, col)]])

(***************************************************************************)
(* Text: str.upper, str.strip, startswith, the `in` substring test.        *)
(***************************************************************************)
LowerLetters ==
  <<"a","b","c","d","e","f","g","h","i","j","k","l","m","n","o","p","q","r",
    "s","t","u","v","w","x","y","z">>
UpperLetters ==
  <<"A","B","C","D","E","F","G","H","I","J","K","L","M","N","O","P","Q","R",
    "S","T","U","V","W","X","Y","Z">>

UpperChar(c) ==
  IF \E i \in 1..26 : LowerLetters[i] = c
  THEN UpperLetters[CHOOSE i \in 1..26 : LowerLetters[i] = c] ELSE c
LowerChar(c) ==
  IF \E i \in 1..26 : UpperLetters[i] = c
  THEN LowerLetters[CHOOSE i \in 1..26 : UpperLetters[i] = c] ELSE c
UpperText(t) == LET u == t IN [i \in 1..Len(u) |-> UpperChar(u[i])]
LowerText(t) == LET u == t IN [i \in 1..Len(u) |-> LowerChar(u[i])]

Strip(t) ==
  LET u == t
      keep == {i \in 1..Len(u) : u[i] \notin ({" ", "\t", "\n", "\r"})}
  IN IF keep = {} THEN <<>>
     ELSE SubSeq(u, CHOOSE i \in keep : \A j \in keep : i <= j,
                    CHOOSE i \in keep : \A j \in keep : j <= i)

StartsWith(t, w) == LET u == t IN Len(w) <= Len(u) /\ SubSeq(u, 1, Len(w)) = w
Contains(t, w) ==
  LET u == t
  IN \E i \in 0..(Len(u) - Len(w)) : SubSeq(u, i + 1, i + Len(w)) = w

RECURSIVE Flatten(_)
Flatten(ts) == IF ts = <<>> THEN <<>> ELSE Head(ts) \o Flatten(Tail(ts))

\* the string made of the pieces of ts
RECURSIVE TextOf(_)
TextOf(ts) == IF ts = <<>> THEN "" ELSE Head(ts) \o TextOf(Tail(ts))

(***************************************************************************)
(* The agent: escalation decision of process_task.                         *)
(***************************************************************************)
\* the alternatives of ESCALATION_PATTERNS; every pattern is (?i), so they
\* are listed in lower case and searched in the lower-cased text
ESCALATION_PATTERNS ==
  { <<"p","r","i","c","i","n","g">>,
    <<"d","i","s","c","o","u","n","t">>,
    <<"p","r","i","c","e"," ","r","e","d","u","c","t","i","o","n">>,
    <<"h","o","w"," ","m","u","c","h">>,
    <<"c","o","s","t">>,
    <<"l","e","g","a","l">>,
    <<"c","o","n","t","r","a","c","t">>,
    <<"b","a","a">>,
    <<"d","p","a">>,
    <<"c","o","m","p","l","i","a","n","c","e">>,
    <<"s","e","c","u","r","i","t","y"," ","q","u","e","s","t","i","o","n","n","a","i","r","e">>,
    <<"n","d","a">>,
    <<"s","h","o","u","l","d"," ","w","e">>,
    <<"i","s"," ","t","h","i","s"," ","s","t","r","a","t","e","g","i","c">>,
    <<"p","r","i","o","r","i","t","i","z","e">>,
    <<"e","x","e","c","u","t","i","v","e">>,
    <<"r","o","a","d","m","a","p">>,
    <<"w","h","e","n"," ","w","i","l","l">>,
    <<"f","u","t","u","r","e"," ","f","e","a","t","u","r","e">>,
    <<"u","p","c","o","m","i","n","g"," ","r","e","l","e","a","s","e">>,
    <<"b","e","a","t">>,
    <<"c","o","m","p","e","t","e"," ","w","i","t","h">>,
    <<"v","s"," ","c","o","m","p","e","t","i","t","o","r">>,
    <<"d","i","s","p","l","a","c","e","m","e","n","t">> }

\* the user texts that are submitted with a task
Contexts ==
  { <<"h","e","l","l","o">>,
    <<"A","s","k","i","n","g"," ","f","o","r"," ","a"," ","4","0","%"," ","D","i","s","c","o","u","n","t">> }

\* re.search of every pattern in the task context
MatchesPattern(context) ==
  LET low == LowerText(context)
  IN \E p \in ESCALATION_PATTERNS : Contains(low, p)

\* the search, tabulated once over the texts that are submitted
EscalationTable == [c \in Contexts \cup {<<>>} |-> MatchesPattern(c)]

\* _should_escalate: does any pattern occur in the task context
should_escalate(context) == EscalationTable[context]

\* process_task: the part of its result that the emitters log.  context is
\* the user-supplied text that reaches full_context; elapsed is the measured
\* time in hundredths of a second
process_task(context, elapsed) ==
  LET escalation_info == should_escalate(context)
  IN [abstained |-> escalation_info,
      confidence |-> IF escalation_info THEN "escalation" ELSE "medium",
      resolution_time_seconds |-> elapsed]

(***************************************************************************)
(* The agent: _call_hf_api and the whole result of process_task.           *)
(***************************************************************************)
\* an Optional[str]: None is the empty sequence, a text t is <<t>>

\* number of outcomes drawn for one call
MaxReplies == 2

\* a status-200 branch: response.json(), the test on "choices", and
\* choices[0].get("message", {}).get("content", "").strip()
ReadChoices(body) ==
  CASE ~body.json -> [raised |-> TRUE, value |-> <<>>]
    [] body.choices \in {"absent", "empty"} -> [raised |-> FALSE, value |-> <<>>]
    [] body.choices = "no_message" -> [raised |-> FALSE, value |-> <<Strip(<<>>)>>]
    [] body.choices = "null_content" -> [raised |-> TRUE, value |-> <<>>]
    [] OTHER -> [raised |-> FALSE, value |-> <<Strip(body.content)>>]

\* what a call returns, with the steps it took
ApiResult(value, events) == [result |-> value, events |-> events]

\* the except branch: a raised exception ends the call with None
Caught(read, events) ==
  IF read.raised THEN ApiResult(<<>>, events \o <<"except">>)
  ELSE ApiResult(read.value, events)

\* a retry after every status other than 200
call_hf_api_retrying_every_error(hf_token, replies) ==
  IF ~hf_token THEN ApiResult(<<>>, <<>>)
  ELSE LET first == replies[1]
           second == replies[2]
       IN IF first.raised THEN ApiResult(<<>>, <<"post", "except">>)
          ELSE IF first.status_code = 200
          THEN Caught(ReadChoices(first.body), <<"post">>)
          ELSE IF second.raised
               THEN ApiResult(<<>>, <<"post", "sleep", "post", "except">>)
               ELSE IF second.status_code = 200
               THEN Caught(ReadChoices(second.body), <<"post", "sleep", "post">>)
               ELSE ApiResult(<<>>, <<"post", "sleep", "post">>)

\* _call_hf_api: replies are the outcomes the successive posts would have
call_hf_api(hf_token, replies) ==
  IF ~hf_token THEN ApiResult(<<>>, <<>>)
  ELSE LET first == replies[1]
           second == replies[2]
       IN IF first.raised THEN ApiResult(<<>>, <<"post", "except">>)
          ELSE IF first.status_code = 200
          THEN Caught(ReadChoices(first.body), <<"post">>)
          ELSE IF first.status_code = 503
          THEN IF second.raised
               THEN ApiResult(<<>>, <<"post", "sleep", "post", "except">>)
               ELSE IF second.status_code = 200
               THEN Caught(ReadChoices(second.body), <<"post", "sleep", "post">>)
               ELSE ApiResult(<<>>, <<"post", "sleep", "post">>)
          ELSE ApiResult(<<>>, <<"post">>)

ESCALATION_TYPES ==
  [pricing |-> [escalation_type |-> <<"C","o","n","s","u","l","t"," ","w","i","t","h"," ","S","a","l","e","s"," ","M","a","n","a","g","e","r">>,
       reason |-> <<"P","r","i","c","i","n","g"," ","a","n","d"," ","d","i","s","c","o","u","n","t"," ","d","e","c","i","s","i","o","n","s"," ","r","e","q","u","i","r","e"," ","m","a","n","a","g","e","r"," ","a","p","p","r","o","v","a","l">>,
       owner |-> <<"Y","o","u","r"," ","S","a","l","e","s"," ","M","a","n","a","g","e","r">>],
   legal |-> [escalation_type |-> <<"C","o","n","s","u","l","t"," ","w","i","t","h"," ","L","e","g","a","l"," ","T","e","a","m">>,
       reason |-> <<"L","e","g","a","l"," ","a","n","d"," ","c","o","m","p","l","i","a","n","c","e"," ","t","o","p","i","c","s"," ","r","e","q","u","i","r","e"," ","l","e","g","a","l"," ","r","e","v","i","e","w">>,
       owner |-> <<"L","e","g","a","l"," ","D","e","p","a","r","t","m","e","n","t">>],
   executive |-> [escalation_type |-> <<"C","o","n","s","u","l","t"," ","w","i","t","h"," ","L","e","a","d","e","r","s","h","i","p">>,
       reason |-> <<"S","t","r","a","t","e","g","i","c"," ","d","e","c","i","s","i","o","n","s"," ","r","e","q","u","i","r","e"," ","e","x","e","c","u","t","i","v","e"," ","i","n","p","u","t">>,
       owner |-> <<"S","a","l","e","s"," ","L","e","a","d","e","r","s","h","i","p">>],
   technical |-> [escalation_type |-> <<"C","o","n","s","u","l","t"," ","w","i","t","h"," ","S","o","l","u","t","i","o","n","s"," ","E","n","g","i","n","e","e","r">>,
       reason |-> <<"T","e","c","h","n","i","c","a","l"," ","d","e","p","t","h"," ","b","e","y","o","n","d"," ","d","o","c","u","m","e","n","t","e","d"," ","c","a","p","a","b","i","l","i","t","i","e","s">>,
       owner |-> <<"S","o","l","u","t","i","o","n","s"," ","E","n","g","i","n","e","e","r","i","n","g"," ","T","e","a","m">>],
   roadmap |-> [escalation_type |-> <<"C","o","n","s","u","l","t"," ","w","i","t","h"," ","P","r","o","d","u","c","t"," ","T","e","a","m">>,
       reason |-> <<"P","r","o","d","u","c","t"," ","r","o","a","d","m","a","p"," ","q","u","e","s","t","i","o","n","s"," ","r","e","q","u","i","r","e"," ","p","r","o","d","u","c","t"," ","t","e","a","m"," ","i","n","p","u","t">>,
       owner |-> <<"P","r","o","d","u","c","t"," ","M","a","n","a","g","e","m","e","n","t">>]]

\* re.search of one alternation in the query, ignoring case
SearchAny(words, query) ==
  LET low == LowerText(query)
  IN \E w \in words : Contains(low, w)

\* _should_escalate with the escalation type it selects; None is <<>>
escalation_info_of(query) ==
  IF SearchAny(ESCALATION_PATTERNS, query)
  THEN IF SearchAny({<<"p","r","i","c","i","n","g">>, <<"d","i","s","c","o","u","n","t">>, <<"p","r","i","c","e">>, <<"c","o","s","t">>}, query)
       THEN <<ESCALATION_TYPES.pricing>>
       ELSE IF SearchAny({<<"l","e","g","a","l">>, <<"c","o","n","t","r","a","c","t">>, <<"b","a","a">>, <<"d","p","a">>, <<"c","o","m","p","l","i","a","n","c","e">>, <<"s","e","c","u","r","i","t","y"," ","q","u","e","s","t","i","o","n","n","a","i","r","e">>}, query)
       THEN <<ESCALATION_TYPES.legal>>
       ELSE IF SearchAny({<<"s","h","o","u","l","d"," ","w","e">>, <<"i","s"," ","t","h","i","s"," ","s","t","r","a","t","e","g","i","c">>, <<"p","r","i","o","r","i","t","i","z","e">>, <<"e","x","e","c","u","t","i","v","e">>}, query)
       THEN <<ESCALATION_TYPES.executive>>
       ELSE IF SearchAny({<<"r","o","a","d","m","a","p">>, <<"w","h","e","n"," ","w","i","l","l">>, <<"f","u","t","u","r","e"," ","f","e","a","t","u","r","e">>, <<"u","p","c","o","m","i","n","g">>}, query)
       THEN <<ESCALATION_TYPES.roadmap>>
       ELSE <<ESCALATION_TYPES.technical>>
  ELSE <<>>

\* ESCALATION_RESPONSE.format(**escalation_info)
ESCALATION_RESPONSE(info) ==
  <<"*","*","T","h","i","s"," ","q","u","e","r","y"," ","r","e","q","u","i","r","e","s"," ","h","u","m","a","n"," ","e","x","p","e","r","t","i","s","e","*","*","\n","\n","*","*","R","e","c","o","m","m","e","n","d","e","d"," ","A","c","t","i","o","n","*","*",":"," ">>
    \o info.escalation_type
    \o <<"\n","\n","*","*","R","e","a","s","o","n","*","*",":"," ">>
    \o info.reason
    \o <<"\n","\n","*","*","S","u","g","g","e","s","t","e","d"," ","O","w","n","e","r","*","*",":"," ">>
    \o info.owner
    \o <<"\n","\n","P","l","e","a","s","e"," ","c","o","n","s","u","l","t"," ","w","i","t","h"," ","t","h","e"," ","a","p","p","r","o","p","r","i","a","t","e"," ","t","e","a","m"," ","m","e","m","b","e","r"," ","f","o","r"," ","t","h","i","s"," ","d","e","c","i","s","i","o","n",".","\n">>

\* get_mock_response: the template of the task type (lead_summary for an
\* unknown one), its first and last paragraphs; company_name is the
\* submitted text
get_mock_response(task_type, context) ==
  (CASE task_type = "follow_up" -> <<"*","*","F","o","l","l","o","w","-","U","p"," ","A","c","t","i","o","n","*","*","\n","S","e","n","d"," ","p","e","r","s","o","n","a","l","i","z","e","d"," ","f","o","l","l","o","w","-","u","p"," ","e","m","a","i","l"," ","w","i","t","h","i","n"," ","2","4"," ","h","o","u","r","s","\n","\n">>
     [] task_type = "risk_analysis" -> <<"*","*","R","i","s","k"," ","L","e","v","e","l","*","*",":"," ","M","e","d","i","u","m","\n","\n">>
     [] task_type = "data_hygiene" -> <<"*","*","D","a","t","a"," ","Q","u","a","l","i","t","y"," ","I","s","s","u","e","s","*","*","\n","-"," ","I","n","c","o","m","p","l","e","t","e"," ","c","o","n","t","a","c","t"," ","i","n","f","o","r","m","a","t","i","o","n","\n","\n","*","*","P","r","i","o","r","i","t","y"," ","L","e","v","e","l","*","*",":"," ","M","e","d","i","u","m","\n","\n">>
     [] OTHER -> <<"*","*","C","o","m","p","a","n","y"," ","O","v","e","r","v","i","e","w","*","*","\n">>
                   \o context
                   \o <<" ","i","s"," ","a"," ","m","i","d","-","m","a","r","k","e","t"," ","o","r","g","a","n","i","z","a","t","i","o","n","\n","\n">>)
    \o <<"*","*","C","o","n","f","i","d","e","n","c","e","*","*",":"," ","M","e","d","i","u","m"," ","(","m","o","c","k"," ","r","e","s","p","o","n","s","e"," ","-"," ","e","n","a","b","l","e"," ","H","F","_","T","O","K","E","N"," ","f","o","r"," ","r","e","a","l"," ","a","n","a","l","y","s","i","s",")","\n">>

\* the confidence read from the response text
ExtractConfidence(response_text) ==
  IF Contains(response_text, <<"C","o","n","f","i","d","e","n","c","e",":"," ","H","i","g","h">>)
       \/ Contains(response_text, <<"C","o","n","f","i","d","e","n","c","e",":"," ","h","i","g","h">>)
  THEN "high"
  ELSE IF Contains(response_text, <<"C","o","n","f","i","d","e","n","c","e",":"," ","L","o","w">>)
            \/ Contains(response_text, <<"C","o","n","f","i","d","e","n","c","e",":"," ","l","o","w">>)
  THEN "low"
  ELSE "medium"

\* process_task with its response text and the API calls it makes
process_task_response(task_type, context, hf_token, replies) ==
  LET escalation_info == escalation_info_of(context)
  IN IF escalation_info # <<>>
     THEN [response |-> ESCALATION_RESPONSE(escalation_info[1]),
           task_type |-> task_type,
           abstained |-> TRUE,
           confidence |-> "escalation",
           events |-> <<>>]
     ELSE LET api == call_hf_api(hf_token, replies)
              response_text ==
                IF api.result = <<>>
                THEN get_mock_response(task_type, context) \o (<<"\n","\n","_","N","o","t","e",":"," ","U","s","i","n","g"," ","m","o","c","k"," ","r","e","s","p","o","n","s","e","."," ","S","e","t"," ","H","F","_","T","O","K","E","N"," ","e","n","v","i","r","o","n","m","e","n","t"," ","v","a","r","i","a","b","l","e"," ","t","o"," ","e","n","a","b","l","e"," ","r","e","a","l"," ","L","L","M",".","_">>)
                ELSE api.result[1]
          IN [response |-> response_text,
              task_type |-> task_type,
              abstained |-> FALSE,
              confidence |-> ExtractConfidence(response_text),
              events |-> api.events]

(***************************************************************************)
(* The run emitters.                                                       *)
(***************************************************************************)

\* the dict without its data_hygiene entry
workflow_stages_without_data_hygiene(task_type) ==
  CASE task_type = "lead_summary" -> "Pipeline Generation"
    [] task_type = "follow_up" -> "Deal Execution"
    [] task_type = "risk_analysis" -> "Deal Execution"
    [] OTHER -> "Pipeline Generation"

\* the workflow_stages dict and its .get(task_type, "Pipeline Generation")
workflow_stages(task_type) ==
  CASE task_type = "lead_summary" -> "Pipeline Generation"
    [] task_type = "follow_up" -> "Deal Execution"
    [] task_type = "risk_analysis" -> "Deal Execution"
    [] task_type = "data_hygiene" -> "Onboarding & Adoption"
    [] OTHER -> "Pipeline Generation"

\* round(x, 1) of a value given in hundredths (exact halves go to even)
RoundTenths(c) ==
  LET q == c \div 10
      r == c % 10
  IN IF r < 5 THEN 10 * q
     ELSE IF r > 5 THEN 10 * (q + 1)
     ELSE IF q % 2 = 0 THEN 10 * q ELSE 10 * (q + 1)

\* uuid.uuid4().hex[:6].upper() of the h-th uuid value
HexText(h) == "A1B2C" \o ToString(h)

\* the dict that agent_query and upload_file hand to log_agent_run
RunData(prefix, user, source, task_type, result, h, t) ==
  [run_id |-> StrV(prefix \o HexText(h)),
   timestamp |-> StrV(TimeText(t)),
   user_id |-> StrV(user),
   task_type |-> StrV(task_type),
   agent_version |-> StrV("A"),
   resolution_time_seconds |-> FloatV(result.resolution_time_seconds),
   user_accepted |-> BoolV(TRUE),
   user_rating |-> IntV(0),
   abstained |-> BoolV(result.abstained),
   error_occurred |-> BoolV(FALSE),
   lead_source |-> StrV(source),
   crm_stage |-> StrV("SQL"),
   opportunity_value |-> IntV(0),
   workflow_stage |-> StrV(workflow_stages(task_type)),
   time_saved_minutes |-> FloatV(RoundTenths(3 * result.resolution_time_seconds)),
   prompt_version |-> StrV("v2.0")]

(***************************************************************************)
(* Responses.  status is "ok" (rendered, error = None), "error" (rendered  *)
(* with an error text) or "escaped" (an exception left the handler).       *)
(* events lists what the handler did, in order; logged holds the dict      *)
(* passed to log_agent_run, rows the result table of a sandbox query.      *)
(***************************************************************************)
Resp(route, status, error, events, logged, query, rows) ==
  [route |-> route, status |-> status, error |-> error, events |-> events,
   logged |-> logged, query |-> query, rows |-> rows]

ViewResp(route, status, error, events) ==
  Resp(route, status, error, events, <<>>, <<>>, <<>>)

(***************************************************************************)
(* DataLoader and get_loader.                                              *)
(***************************************************************************)
\* column order of the DataFrame: the file's names, then the filled ones
TableCols(f) ==
  f.lines[1] \o SelectSeq(<<"workflow_stage", "time_saved_minutes", "prompt_version">>,
                          LAMBDA c : c \notin Range(f.lines[1]))

\* a loader kept from before the last record was appended
get_loader_kept(f) ==
  LET old == IF Len(f.lines) >= 2
             THEN [f EXCEPT !.lines = SubSeq(f.lines, 1, Len(f.lines) - 1)] ELSE f
      L == load_csv_to_db(old)
  IN IF ~f.exists
     THEN [raised |-> FALSE, error |-> "None", has_table |-> FALSE, table |-> <<>>,
           events |-> <<"connect">>]
     ELSE IF L.ok
          THEN [raised |-> FALSE, error |-> "None", has_table |-> TRUE,
                table |-> L.table, events |-> <<"connect", "load">>]
          ELSE [raised |-> TRUE, error |-> L.error, has_table |-> FALSE,
                table |-> <<>>, events |-> <<"connect", "load_raised">>]

\* get_loader: a fresh in-memory connection; agent_runs is created only when
\* the file exists; a failing load raises out of get_loader
get_loader(f) ==
  IF ~f.exists
  THEN [raised |-> FALSE, error |-> "None", has_table |-> FALSE, table |-> <<>>,
        events |-> <<"connect">>]
  ELSE LET L == load_csv_to_db(f)
       IN IF L.ok
          THEN [raised |-> FALSE, error |-> "None", has_table |-> TRUE,
                table |-> L.table, events |-> <<"connect", "load">>]
          ELSE [raised |-> TRUE, error |-> L.error, has_table |-> FALSE,
                table |-> <<>>, events |-> <<"connect", "load_raised">>]

\* n aggregate queries over agent_runs, one after the other: the first one
\* raises when the table does not exist
ViewQueries(L, n) ==
  IF L.has_table THEN [i \in 1..n |-> "query"] ELSE <<"query_raised">>

\* the body shared by the page handlers: get_loader, n view queries,
\* loader.close(), all inside one try whose except renders str(e)
PageRequest(route, f, n) ==
  LET L == get_loader(f)
  IN IF L.raised THEN ViewResp(route, "error", L.error, L.events)
     ELSE IF ~L.has_table
       THEN ViewResp(route, "error", "CatalogError", L.events \o ViewQueries(L, n))
     ELSE ViewResp(route, "ok", "None", L.events \o ViewQueries(L, n) \o <<"close">>)

home(f) == PageRequest("/", f, 5)
dashboard(f) == PageRequest("/dashboard", f, 6)
workflow(f) == PageRequest("/workflow", f, 3)
audit(f) == PageRequest("/audit", f, 3)

\* explorer: the schema query reads information_schema inside its own
\* try/except and never fails the request; the row count reads agent_runs
explorer(f) ==
  LET L == get_loader(f)
  IN IF L.raised THEN ViewResp("/explorer", "error", L.error, L.events)
     ELSE IF ~L.has_table
       THEN ViewResp("/explorer", "error", "CatalogError",
                     L.events \o <<"query", "query_raised">>)
     ELSE ViewResp("/explorer", "ok", "None",
                   L.events \o <<"query", "query", "close">>)

(***************************************************************************)
(* The query sandbox.  A query text is a sequence of fragments; the        *)
(* validator sees the characters, the engine the statements.               *)
(***************************************************************************)
FragText(f) ==
  CASE f = "SEL_ALL" -> <<"S","E","L","E","C","T"," ","*"," ","F","R","O","M"," ","a","g","e","n","t","_","r","u","n","s">>
    [] f = "sel_one" -> <<"s","e","l","e","c","t"," ","1">>
    [] f = "SEL_UPD" -> <<"S","E","L","E","C","T"," ","u","p","d","a","t","e","d","_","a","t"," ","F","R","O","M"," ","a","g","e","n","t","_","r","u","n","s">>
    [] f = "SEMI" -> <<";">>
    [] f = "SP" -> <<" ">>
    [] f = "DROP" -> <<"D","R","O","P"," ","T","A","B","L","E"," ","a","g","e","n","t","_","r","u","n","s">>
    [] f = "upd" -> <<"u","p","d","a","t","e"," ","a","g","e","n","t","_","r","u","n","s"," ","s","e","t"," ","a","b","s","t","a","i","n","e","d"," ","="," ","f","a","l","s","e">>
    [] f = "COPY" -> <<"C","O","P","Y"," ","(","S","E","L","E","C","T"," ","*"," ","F","R","O","M"," ","a","g","e","n","t","_","r","u","n","s"," ","L","I","M","I","T"," ","0",")"," ","T","O"," ","'","d","a","t","a","/","s","a","m","p","l","e","_","a","g","e","n","t","_","r","u","n","s",".","c","s","v","'">>
    [] f = "trun" -> <<"t","r","u","n">>
    [] f = "cate" -> <<"c","a","t","e"," ","a","g","e","n","t","_","r","u","n","s">>

QueryText(q) == Flatten([i \in 1..Len(q) |-> FragText(q[i])])

\* the keyword list with its last entry lost
forbidden_without_truncate ==
  << <<"D","R","O","P">>, <<"D","E","L","E","T","E">>, <<"I","N","S","E","R","T">>,
     <<"U","P","D","A","T","E">>, <<"A","L","T","E","R">>, <<"C","R","E","A","T","E">> >>

forbidden ==
  << <<"D","R","O","P">>, <<"D","E","L","E","T","E">>, <<"I","N","S","E","R","T">>,
     <<"U","P","D","A","T","E">>, <<"A","L","T","E","R">>, <<"C","R","E","A","T","E">>,
     <<"T","R","U","N","C","A","T","E">> >>
SELECT == <<"S","E","L","E","C","T">>

\* lines 527-534 of run_query: "accepted", or the text of the ValueError
\* raised.  The keyword loop runs first and raises at the first listed word
\* that occurs; the SELECT test is reached only when no word occurs
Validate(text) ==
  LET upper_query == Strip(UpperText(text))
      hits == {i \in 1..Len(forbidden) : Contains(upper_query, forbidden[i])}
      word == forbidden[CHOOSE i \in hits : \A j \in hits : i <= j]
  IN IF hits # {}
       THEN "Forbidden SQL keyword: " \o TextOf(word) \o ". Only SELECT queries allowed."
     ELSE IF ~StartsWith(upper_query, SELECT) THEN "Only SELECT queries are allowed."
     ELSE "accepted"

\* the statements of a query text: split at ";", blanks dropped
RECURSIVE SplitStmts(_, _)
SplitStmts(q, cur) ==
  IF q = <<>> THEN <<cur>>
  ELSE IF Head(q) = "SEMI" THEN <<cur>> \o SplitStmts(Tail(q), <<>>)
  ELSE IF Head(q) = "SP" THEN SplitStmts(Tail(q), cur)
  ELSE SplitStmts(Tail(q), Append(cur, Head(q)))

StmtKind(stmt) ==
  IF stmt = <<>> THEN "empty"
  ELSE IF Len(stmt) > 1 THEN "syntax"
  ELSE CASE stmt[1] = "SEL_ALL" -> "select_table"
         [] stmt[1] = "sel_one" -> "select_const"
         [] stmt[1] = "SEL_UPD" -> "select_column"
         [] stmt[1] = "COPY" -> "copy"
         [] stmt[1] = "DROP" -> "drop"
         [] stmt[1] = "upd" -> "update"
         [] OTHER -> "syntax"

\* one statement on the connection.  st: the table of the connection, the
\* log file, the rows of the last result, the error raised so far
ExecStmt(kind, st) ==
  IF st.error # "None" \/ kind = "empty" THEN st
  ELSE IF kind = "select_const"
    THEN [st EXCEPT !.rows = <<[x |-> IntV(1)]>>]
  ELSE IF ~st.has_table THEN [st EXCEPT !.error = "CatalogError"]
  ELSE CASE kind = "select_table" -> [st EXCEPT !.rows = st.table]
         [] kind = "select_column" -> [st EXCEPT !.error = "BinderError"]
         [] kind = "copy" ->
              [st EXCEPT !.file = [exists |-> TRUE, lines |-> <<st.cols>>],
                         !.rows = <<[Count |-> IntV(0)]>>]
         [] kind = "drop" ->
              [st EXCEPT !.has_table = FALSE, !.table = <<>>, !.rows = <<>>]
         [] kind = "update" ->
              [st EXCEPT !.table = [i \in 1..Len(st.table) |->
                                      [st.table[i] EXCEPT !.abstained = BoolV(FALSE)]],
                         !.rows = <<[Count |-> IntV(Len(st.table))]>>]

RECURSIVE ExecStmts(_, _)
ExecStmts(stmts, st) ==
  IF stmts = <<>> THEN st
  ELSE ExecStmts(Tail(stmts), ExecStmt(StmtKind(Head(stmts)), st))

\* DataLoader.execute_query on a user query: conn.execute parses the whole
\* text first (a syntax error runs nothing), then runs every statement in
\* order; fetchdf returns the rows of the last one
execute_query(q, L, f) ==
  LET stmts == SplitStmts(q, <<>>)
      st0 == [has_table |-> L.has_table, table |-> L.table,
              cols |-> IF L.has_table THEN TableCols(f) ELSE <<>>,
              file |-> f, rows |-> <<>>, error |-> "None"]
  IN IF \E i \in 1..Len(stmts) : StmtKind(stmts[i]) = "syntax"
     THEN [st0 EXCEPT !.error = "ParserException"]
     ELSE ExecStmts(stmts, st0)

\* the except block of run_query (lines 564-582): a second get_loader and
\* the row count, neither of them guarded
RunQueryExcept(q, f, error, events) ==
  LET L == get_loader(f)
  IN IF L.raised
       THEN Resp("/explorer/query", "escaped", L.error, events \o L.events, <<>>, q, <<>>)
     ELSE IF ~L.has_table
       THEN Resp("/explorer/query", "escaped", "CatalogError",
                 events \o L.events \o <<"query", "query_raised">>, <<>>, q, <<>>)
     ELSE Resp("/explorer/query", "error", error,
               events \o L.events \o <<"query", "query", "close">>, <<>>, q, <<>>)

\* every query text of at most MaxFrags fragments
Queries ==
  {q : q \in UNION {[1..n -> {"SEL_ALL", "sel_one", "SEL_UPD", "SEMI", "SP", "DROP", "upd", "COPY", "trun", "cate"}]
                      : n \in 1..MaxFrags}}

\* the validator, tabulated once over the query texts
ValidationTable == [q \in Queries |-> Validate(QueryText(q))]

\* run_query: the response and the log file it leaves behind
run_query(q, f) ==
  LET verdict == ValidationTable[q]
      L == get_loader(f)
      X == execute_query(q, L, f)
  IN IF verdict # "accepted"
       THEN [file |-> f, resp |-> RunQueryExcept(q, f, verdict, <<"reject">>)]
     ELSE IF L.raised
       THEN [file |-> f, resp |-> RunQueryExcept(q, f, L.error, <<"accept">> \o L.events)]
     ELSE IF X.error # "None"
       THEN [file |-> X.file,
             resp |-> RunQueryExcept(q, X.file, X.error,
                                     <<"accept">> \o L.events \o <<"execute_raised">>)]
     ELSE IF ~X.has_table
       THEN [file |-> X.file,
             resp |-> RunQueryExcept(q, X.file, "CatalogError",
                        <<"accept">> \o L.events \o <<"execute", "query", "query_raised">>)]
     ELSE [file |-> X.file,
           resp |-> Resp("/explorer/query", "ok", "None",
                         <<"accept">> \o L.events \o <<"execute", "query", "query", "close">>,
                         <<>>, q, X.rows)]

(***************************************************************************)
(* Inputs and initial log files.                                           *)
(***************************************************************************)
\* rows as data/generate_data.py writes them
SampleRecords ==
  << [run_id |-> StrV("RUN001"), timestamp |-> StrV(TimeText(1)),
      user_id |-> StrV("USR101"), task_type |-> StrV("lead_summary"),
      agent_version |-> StrV("A"), resolution_time_seconds |-> FloatV(347),
      user_accepted |-> BoolV(TRUE), user_rating |-> IntV(5),
      abstained |-> BoolV(FALSE), error_occurred |-> BoolV(FALSE),
      lead_source |-> StrV("Partner Referral"), crm_stage |-> StrV("MQL"),
      opportunity_value |-> IntV(0), workflow_stage |-> StrV("Pipeline Generation"),
      time_saved_minutes |-> FloatV(1250), prompt_version |-> StrV("v1.0")],
     [run_id |-> StrV("RUN002"), timestamp |-> StrV(TimeText(2)),
      user_id |-> StrV("USR102"), task_type |-> StrV("follow_up"),
      agent_version |-> StrV("B"), resolution_time_seconds |-> FloatV(520),
      user_accepted |-> BoolV(FALSE), user_rating |-> IntV(2),
      abstained |-> BoolV(TRUE), error_occurred |-> BoolV(FALSE),
      lead_source |-> StrV("Outbound - Cold"), crm_stage |-> StrV("Discovery"),
      opportunity_value |-> IntV(25000), workflow_stage |-> StrV("Deal Execution"),
      time_saved_minutes |-> FloatV(750), prompt_version |-> StrV("v1.1")] >>

\* the canonical columns without the optional ones in missing
ColsWithout(missing) == SelectSeq(fieldnames, LAMBDA c : c \notin missing)

\* a log written by the generator with columns cols and the first k rows
SampleFile(cols, k) ==
  [exists |-> TRUE,
   lines |-> <<cols>> \o [i \in 1..k |-> WriteRow(cols, SampleRecords[i])]]

\* the set with executables allowed as well
allowed_extensions_with_exe == {".csv", ".txt", ".json", ".exe"}

allowed_extensions == {".csv", ".txt", ".json"}

NoResp == ViewResp("none", "ok", "None", <<>>)

(***************************************************************************)
(* Actions: one per request handler.                                       *)
(***************************************************************************)
\* POST /agent/query.  The user text reaches the agent only for the four
\* known task types (kwargs stays empty otherwise)
AgentQuery(task_type, context, h, t, elapsed) ==
  /\ (Len(file.lines) + (IF file.exists THEN 1 ELSE 2) <= MaxLines)
  /\ LET result == process_task(IF task_type \in {"lead_summary", "follow_up", "risk_analysis", "data_hygiene"}
                                THEN context ELSE <<>>,
                                elapsed)
         run_data == RunData("PLY", "web_playground", "Playground", task_type, result, h, t)
     IN /\ file' = log_agent_run(file, run_data)
        /\ resp' = Resp("/agent/query", "ok", "None",
                        <<"process_task", "log_agent_run">>, <<run_data>>, <<>>, <<>>)

\* Path(filename).suffix: the name from its last dot on, empty when the name
\* has no dot or when that dot is its first or its last character
Suffix(filename) ==
  LET dots == {i \in 1..Len(filename) : filename[i] = "."}
  IN IF dots = {} THEN <<>>
     ELSE LET last == CHOOSE i \in dots : \A j \in dots : j <= i
          IN IF 1 < last /\ last < Len(filename)
             THEN SubSeq(filename, last, Len(filename))
             ELSE <<>>

\* file_ext = Path(file.filename).suffix.lower()
file_ext(filename) == TextOf(LowerText(Suffix(filename)))

\* POST /upload.  The submitted file name is kept in the response's query
\* field
UploadFile(filename, task_type, context, h, t, elapsed) ==
  IF file_ext(filename) \notin allowed_extensions
  THEN /\ file' = file
       /\ resp' = Resp("/upload", "error", "Invalid file type", <<>>,
                       <<>>, <<filename>>, <<>>)
  ELSE /\ (Len(file.lines) + (IF file.exists THEN 1 ELSE 2) <= MaxLines)
       /\ LET result == process_task(context, elapsed)
              run_data == RunData("WEB", "web_upload", "Web Upload", task_type, result, h, t)
          IN /\ file' = log_agent_run(file, run_data)
             /\ resp' = Resp("/upload", "ok", "None",
                             <<"save_upload", "process_task", "log_agent_run">>,
                             <<run_data>>, <<filename>>, <<>>)

\* POST /agent/query when agent.process_task raises: the except branch
\* (lines 480-484) answers with the error and status 500; log_agent_run is
\* not reached
AgentQueryRaises ==
  /\ file' = file
  /\ resp' = ViewResp("/agent/query", "error", "Exception", <<"process_task_raised">>)

\* POST /upload with an allowed extension when agent.process_task raises:
\* the upload is already saved; the except branch (lines 368-373) renders
\* the error; log_agent_run is not reached
UploadFileRaises ==
  /\ file' = file
  /\ resp' = ViewResp("/upload", "error", "Exception",
                      <<"save_upload", "process_task_raised">>)

Home == file' = file /\ resp' = home(file)
Dashboard == file' = file /\ resp' = dashboard(file)
Workflow == file' = file /\ resp' = workflow(file)
Audit == file' = file /\ resp' = audit(file)
Explorer == file' = file /\ resp' = explorer(file)

\* POST /explorer/query
RunQuery(q) ==
  LET r == run_query(q, file)
  IN file' = r.file /\ resp' = r.resp

\* how many sample records a log of at most MaxLines lines can hold
SampleRowCounts == {k \in 0..Len(SampleRecords) : k + 1 <= MaxLines}

Init == file \in ({NoFile} \cup {SampleFile(fieldnames, k) : k \in SampleRowCounts}) /\ resp = NoResp

Next ==
  \/ \E task_type \in {"lead_summary", "NA"}, context \in Contexts, h \in 1..NumHex,
        t \in 1..MaxTime, elapsed \in {125} :
       AgentQuery(task_type, context, h, t, elapsed)
  \/ \E task_type \in {"lead_summary", "NA"}, context \in Contexts, h \in 1..NumHex,
        t \in 1..MaxTime, elapsed \in {125} :
       UploadFile(<<"L","e","a","d","s",".","C","S","V">>, task_type, context, h, t, elapsed)
  \/ \E filename \in { <<"t","o","o","l",".","e","x","e">>,
                        <<"n","o","t","e","s">>,
                        <<".","c","s","v">>,
                        <<"l","e","a","d","s",".","c","s","v",".","b","a","k">> },
        task_type \in {"lead_summary", "NA"}, context \in Contexts :
       UploadFile(filename, task_type, context, 1, 1, 125)
  \/ AgentQueryRaises
  \/ UploadFileRaises
  \/ Home
  \/ Dashboard
  \/ Workflow
  \/ Audit
  \/ Explorer
  \/ \E q \in { <<"SEL_ALL">>, <<"sel_one">>, <<"DROP">>, <<"sel_one", "sel_one">>,
                 <<"sel_one", "SEMI", "COPY">> } :
       RunQuery(q)

Spec == Init /\ [][Next]_vars

(***************************************************************************)
(* log_agent_run called directly with valid records (section 3 of the      *)
(* design: task_type from the enum, lead_source and crm_stage free-form).  *)
(***************************************************************************)

LogAgentRun(run_data) ==
  /\ (Len(file.lines) + (IF file.exists THEN 1 ELSE 2) <= MaxLines)
  /\ file' = log_agent_run(file, run_data)
  /\ resp' = Resp("log_agent_run", "ok", "None", <<"log_agent_run">>,
                  <<run_data>>, <<>>, <<>>)

NextRoundTrip ==
  \E source \in {"Playground", "N/A"},
     task_type \in {"lead_summary", "follow_up", "risk_analysis", "data_hygiene"},
     stage \in {"SQL", "MQL"} :
    LogAgentRun([RunData("PLY", "web_playground", source, task_type,
                         process_task(<<>>, 125), 1, 1)
                   EXCEPT !.crm_stage = StrV(stage)])

SpecRoundTrip == Init /\ [][NextRoundTrip]_vars

SpecFromMissing ==
  /\ file = NoFile
  /\ resp = NoResp
  /\ [][NextRoundTrip]_vars

(***************************************************************************)
(* The sandbox alone: one POST /explorer/query with each query text, on a  *)
(* missing log and on a log with one record.                               *)
(***************************************************************************)

SpecSandbox ==
  /\ file \in {NoFile, SampleFile(fieldnames, 1)}
  /\ resp = NoResp
  /\ [][resp = NoResp /\ \E q \in Queries : RunQuery(q)]_vars

(***************************************************************************)
(* The application started on a log written before the optional columns    *)
(* existed.                                                                *)
(***************************************************************************)

NextLegacy ==
  \/ \E task_type \in {"lead_summary", "NA"}, context \in Contexts, h \in 1..NumHex,
        t \in 1..MaxTime, elapsed \in {125} :
       AgentQuery(task_type, context, h, t, elapsed)
  \/ Home
  \/ RunQuery(<<"SEL_ALL">>)

SpecLegacy ==
  /\ file \in {SampleFile(ColsWithout(m), k) :
                  m \in (SUBSET OptionalCols) \ {{}}, k \in SampleRowCounts}
  /\ resp = NoResp
  /\ [][NextLegacy]_vars

(***************************************************************************)
(* The run emitters alone: one POST /agent/query or POST /upload with each *)
(* task type, the four known ones and one the agent does not know, or one  *)
(* POST /upload of a file whose name is refused.                           *)
(***************************************************************************)

NextEmitters ==
  \/ /\ resp = NoResp
     /\ \E task_type \in {"lead_summary", "follow_up", "risk_analysis", "data_hygiene"}
                             \cup {"NA", "churn_forecast"},
           context \in Contexts, h \in 1..NumHex,
           t \in 1..MaxTime, elapsed \in {125, 380} :
          AgentQuery(task_type, context, h, t, elapsed)
  \/ /\ resp = NoResp
     /\ \E task_type \in {"lead_summary", "follow_up", "risk_analysis", "data_hygiene"}
                             \cup {"NA", "churn_forecast"},
           context \in Contexts, h \in 1..NumHex,
           t \in 1..MaxTime, elapsed \in {125, 380} :
          UploadFile(<<"L","e","a","d","s",".","C","S","V">>, task_type, context, h, t, elapsed)
  \/ /\ resp = NoResp
     /\ \E filename \in { <<"t","o","o","l",".","e","x","e">>,
                           <<"n","o","t","e","s">>,
                           <<".","c","s","v">>,
                           <<"l","e","a","d","s",".","c","s","v",".","b","a","k">> },
           task_type \in {"lead_summary", "NA"}, context \in Contexts :
          UploadFile(filename, task_type, context, 1, 1, 125)

SpecEmitters == Init /\ [][NextEmitters]_vars

(***************************************************************************)
(* The aggregation views of DataLoader.  A view is the set of result       *)
(* tables the query can return: rows that tie on the ORDER BY key come in  *)
(* any order.  Of each view the columns kept are its key, its counts and   *)
(* the columns it is ordered by; a rate is the pair <<100 * hits, rows>>.  *)
(***************************************************************************)
RECURSIVE SumOver(_, _)
SumOver(S, f) ==
  IF S = {} THEN 0
  ELSE LET x == CHOOSE y \in S : TRUE IN f[x] + SumOver(S \ {x}, f)

\* the rows of the table that satisfy a predicate, as row numbers; keep[i]
\* is the predicate's value on row i
RowsWhere(table, keep) == {i \in 1..Len(table) : keep[i]}

IsTrue(v) == v = BoolV(TRUE)

\* the grouping that leaves out the rows whose key is NULL
GroupKeys_not_null(values) == Range(values) \ {Null}

\* GROUP BY over the rows' key values: one group per distinct value, NULL
\* being one more value
GroupKeys(values) == Range(values)

\* the aggregates of one group: COUNT(*), the rows with user_accepted, and
\* SUM(time_saved_minutes) in hundredths
Group(table, keys, v) ==
  LET members == RowsWhere(table, [i \in 1..Len(table) |-> keys[i] = v])
  IN [key |-> v,
      count |-> Cardinality(members),
      accepted |-> Cardinality({i \in members : IsTrue(table[i].user_accepted)}),
      minutes |-> SumOver(members, [i \in members |-> table[i].time_saved_minutes.n])]

\* keys[i] is the grouping key of row i
GroupBy(table, keys) == {Group(table, keys, v) : v \in GroupKeys(keys)}

\* the quotient formed also over no rows
Rate_dividing_by_zero(hits, rows) == <<100 * hits, rows>>

\* the average without the factor 100
Rate_as_fraction(hits, rows) == IF rows = 0 THEN <<>> ELSE <<hits, rows>>

\* AVG(CASE WHEN c THEN 1.0 ELSE 0.0 END) * 100: NULL over no rows
Rate(hits, rows) == IF rows = 0 THEN <<>> ELSE <<100 * hits, rows>>

\* ORDER BY: every arrangement of the rows in which the rank never falls
Perms(S) ==
  {f \in [1..Cardinality(S) -> S] : \A i, j \in 1..Cardinality(S) : i # j => f[i] # f[j]}

OrderBy(S, rank) ==
  {f \in Perms(S) : \A i \in 1..(Cardinality(S) - 1) : rank[f[i]] <= rank[f[i + 1]]}

\* the collation order of the texts that occur as sort keys; NULL sorts last
TextOrder == <<"2026-01-01", "A", "B", "v1.0", "v1.1", "v2.0">>

TextRank(v) ==
  IF v.k = "str" /\ \E i \in 1..Len(TextOrder) : TextOrder[i] = v.s
  THEN CHOOSE i \in 1..Len(TextOrder) : TextOrder[i] = v.s
  ELSE Len(TextOrder) + 1

\* STRFTIME(timestamp, '%Y-%m-%d'): every modelled instant is on one day
DateOf(v) == IF v.k = "ts" THEN StrV("2026-01-01") ELSE Null

get_summary_stats(table) ==
  LET n == Len(table)
  IN { << [total_runs |-> n,
           acceptance_rate |->
             Rate(Cardinality(RowsWhere(table,
                    [i \in 1..Len(table) |-> IsTrue(table[i].user_accepted)])), n),
           abstention_rate |->
             Rate(Cardinality(RowsWhere(table,
                    [i \in 1..Len(table) |-> IsTrue(table[i].abstained)])), n),
           error_rate |->
             Rate(Cardinality(RowsWhere(table,
                    [i \in 1..Len(table) |-> IsTrue(table[i].error_occurred)])), n)] >> }

get_metrics_by_version(table) ==
  LET rows == {[agent_version |-> g.key, total_tasks |-> g.count,
               accuracy_pct |-> Rate(g.accepted, g.count)] :
                 g \in GroupBy(table, [i \in 1..Len(table) |-> table[i].agent_version])}
  IN OrderBy(rows, [row \in rows |-> TextRank(row.agent_version)])

get_metrics_by_task_type(table) ==
  LET rows == {[task_type |-> g.key, total_tasks |-> g.count,
               accuracy_pct |-> Rate(g.accepted, g.count)] :
                 g \in GroupBy(table, [i \in 1..Len(table) |-> table[i].task_type])}
  IN OrderBy(rows, [row \in rows |-> 0 - row.total_tasks])

get_daily_trends(table) ==
  LET rows == {[date |-> g.key, total_tasks |-> g.count,
               accuracy_pct |-> Rate(g.accepted, g.count)] :
                 g \in GroupBy(table, [i \in 1..Len(table) |-> DateOf(table[i].timestamp)])}
  IN OrderBy(rows, [row \in rows |-> TextRank(row.date)])

\* the CASE of get_pipeline_funnel's ORDER BY
FunnelStages ==
  <<"MQL", "SAL", "SQL", "Discovery", "Technical Validation", "Value/Impact",
    "Negotiation", "Closed Won", "Closed Lost">>

\* the ranking that puts every unlisted stage first
FunnelRank_unlisted_first(v) ==
  IF v.k = "str" /\ \E i \in 1..Len(FunnelStages) : FunnelStages[i] = v.s
  THEN CHOOSE i \in 1..Len(FunnelStages) : FunnelStages[i] = v.s
  ELSE 0

FunnelRank(v) ==
  IF v.k = "str" /\ \E i \in 1..Len(FunnelStages) : FunnelStages[i] = v.s
  THEN CHOOSE i \in 1..Len(FunnelStages) : FunnelStages[i] = v.s
  ELSE 10

get_pipeline_funnel(table) ==
  LET rows == {[crm_stage |-> g.key, count |-> g.count,
               accuracy_pct |-> Rate(g.accepted, g.count)] :
                 g \in GroupBy(table, [i \in 1..Len(table) |-> table[i].crm_stage])}
  IN OrderBy(rows, [row \in rows |-> FunnelRank(row.crm_stage)])

get_metrics_by_workflow_stage(table) ==
  LET rows == {[workflow_stage |-> g.key, total_tasks |-> g.count,
               total_time_saved |-> g.minutes] :
                 g \in GroupBy(table, [i \in 1..Len(table) |-> table[i].workflow_stage])}
  IN OrderBy(rows, [row \in rows |-> 0 - row.total_tasks])

get_time_saved_summary(table) ==
  LET rows == {[task_type |-> g.key, total_runs |-> g.count,
               total_minutes_saved |-> g.minutes] :
                 g \in GroupBy(table, [i \in 1..Len(table) |-> table[i].task_type])}
  IN OrderBy(rows, [row \in rows |-> 0 - row.total_minutes_saved])

get_prompt_version_metrics(table) ==
  LET rows == {[prompt_version |-> g.key, total_runs |-> g.count,
               accuracy_pct |-> Rate(g.accepted, g.count)] :
                 g \in GroupBy(table, [i \in 1..Len(table) |-> table[i].prompt_version])}
  IN OrderBy(rows, [row \in rows |-> TextRank(row.prompt_version)])

(***************************************************************************)
(* get_audit_log.  The WHERE text is built by pasting the filter texts     *)
(* between quotes; texts are sequences of tokens, "'" being the quote.     *)
(***************************************************************************)
\* lines 158-170: the clauses, joined by AND, or 1=1
where_clauses(task_type, version, outcome) ==
  (IF task_type # <<>>
   THEN << <<"task_type", " ", "=", " ", "'">> \o task_type \o <<"'">> >> ELSE <<>>)
  \o (IF version # <<>>
       THEN << <<"agent_version", " ", "=", " ", "'">> \o version \o <<"'">> >> ELSE <<>>)
  \o (CASE outcome = "accepted" -> << <<"user_accepted", " ", "=", " ", "true">> >>
        [] outcome = "rejected" -> << <<"user_accepted", " ", "=", " ", "false">> >>
        [] outcome = "escalated" -> << <<"abstained", " ", "=", " ", "true">> >>
        [] outcome = "error" -> << <<"error_occurred", " ", "=", " ", "true">> >>
        [] OTHER -> <<>>)

RECURSIVE JoinAnd(_)
JoinAnd(clauses) ==
  IF Len(clauses) = 1 THEN clauses[1]
  ELSE clauses[1] \o <<" ", "AND", " ">> \o JoinAnd(Tail(clauses))

where_sql(task_type, version, outcome) ==
  LET clauses == where_clauses(task_type, version, outcome)
  IN IF clauses = <<>> THEN <<"1", "=", "1">> ELSE JoinAnd(clauses)

\* the SQL lexer: a quote opens a string literal that runs to the next
\* quote (a doubled quote inside it is one quote character); outside
\* literals blanks separate and a token is a keyword, a column or a constant
RECURSIVE Lex(_, _, _)
Lex(tokens, in_literal, literal) ==
  IF tokens = <<>>
  THEN IF in_literal THEN << [t |-> "unterminated", v |-> ""] >> ELSE <<>>
  ELSE LET tok == Head(tokens)
           rest == Tail(tokens)
       IN IF in_literal
          THEN IF tok = "'" /\ rest # <<>> /\ Head(rest) = "'"
                 THEN Lex(Tail(rest), TRUE, literal \o tok)
               ELSE IF tok = "'"
                 THEN << [t |-> "lit", v |-> literal] >> \o Lex(rest, FALSE, "")
               ELSE Lex(rest, TRUE, literal \o tok)
          ELSE IF tok = "'" THEN Lex(rest, TRUE, "")
               ELSE IF tok = " " THEN Lex(rest, FALSE, "")
               ELSE IF tok \in {"AND", "OR", "="} THEN << [t |-> tok, v |-> ""] >> \o Lex(rest, FALSE, "")
               ELSE IF tok \in {"true", "false"} THEN << [t |-> "bool", v |-> tok] >> \o Lex(rest, FALSE, "")
               ELSE IF tok \in Range(fieldnames) THEN << [t |-> "col", v |-> tok] >> \o Lex(rest, FALSE, "")
               ELSE IF tok = "1" THEN << [t |-> "lit", v |-> tok] >> \o Lex(rest, FALSE, "")
               ELSE << [t |-> "unknown", v |-> tok] >> \o Lex(rest, FALSE, "")

\* the lexemes split at a separator keyword
RECURSIVE SplitAt(_, _, _)
SplitAt(lexemes, sep, cur) ==
  IF lexemes = <<>> THEN <<cur>>
  ELSE IF Head(lexemes).t = sep THEN <<cur>> \o SplitAt(Tail(lexemes), sep, <<>>)
  ELSE SplitAt(Tail(lexemes), sep, Append(cur, Head(lexemes)))

\* the predicate as parsed: OR binds weaker than AND; every comparison is
\* operand = operand
Disjuncts(lexemes) ==
  LET ors == SplitAt(lexemes, "OR", <<>>)
  IN [i \in 1..Len(ors) |-> SplitAt(ors[i], "AND", <<>>)]

IsOperand(x) == x.t \in {"lit", "bool", "col"}

WellFormed(lexemes) ==
  LET d == Disjuncts(lexemes)
  IN \A i \in 1..Len(d) : \A j \in 1..Len(d[i]) :
       LET c == d[i][j]
       IN Len(c) = 3 /\ IsOperand(c[1]) /\ c[2].t = "=" /\ IsOperand(c[3])

\* the value of an operand on a row; NULL compares equal to nothing
OperandValue(x, row) ==
  CASE x.t = "col" -> row[x.v]
    [] x.t = "bool" -> BoolV(x.v = "true")
    [] OTHER -> StrV(x.v)

Satisfies(lexemes, row) ==
  LET d == Disjuncts(lexemes)
  IN \E i \in 1..Len(d) : \A j \in 1..Len(d[i]) :
       LET a == OperandValue(d[i][j][1], row)
           b == OperandValue(d[i][j][3], row)
       IN a # Null /\ a = b

\* the ascending order
NewestFirst_ascending(v) == IF v.k = "ts" THEN v.n ELSE 10

\* ORDER BY timestamp DESC: the newest first, NULL last
NewestFirst(v) == IF v.k = "ts" THEN 0 - v.n ELSE 1

Min(a, b) == IF a <= b THEN a ELSE b

\* get_audit_log: the error the engine raises on the query text, or the
\* result tables the query can return
get_audit_log(table, limit, task_type, version, outcome) ==
  LET lexemes == Lex(where_sql(task_type, version, outcome), FALSE, "")
      matching == RowsWhere(table, [i \in 1..Len(table) |-> Satisfies(lexemes, table[i])])
      shown == Min(limit, Cardinality(matching))
  IN IF \E i \in 1..Len(lexemes) : lexemes[i].t = "unterminated"
       THEN [error |-> "ParserException", tables |-> {}]
     ELSE IF ~WellFormed(lexemes)
       THEN [error |-> IF \E i \in 1..Len(lexemes) : lexemes[i].t = "unknown"
                       THEN "BinderException" ELSE "ParserException",
             tables |-> {}]
     ELSE [error |-> "None",
           tables |-> {[j \in 1..shown |-> table[f[j]]] :
                         f \in OrderBy(matching,
                                      [i \in matching |-> NewestFirst(table[i].timestamp)])}]

(***************************************************************************)
(* The views called on logs of up to MaxViewRows records.                  *)
(***************************************************************************)
MaxViewRows == 3

\* records as the emitters and data/generate_data.py write them
ViewBase == RunData("PLY", "web_playground", "Playground", "lead_summary",
                    process_task(<<>>, 125), 1, 1)

ViewPool ==
  { [ViewBase EXCEPT !.crm_stage = StrV("MQL")],
    [ViewBase EXCEPT !.run_id = StrV("RUN002"), !.timestamp = StrV(TimeText(2)),
                     !.task_type = StrV("NA"), !.user_accepted = BoolV(FALSE),
                     !.abstained = BoolV(TRUE), !.crm_stage = StrV("Closed Lost"),
                     !.prompt_version = StrV("v1.0")],
    [ViewBase EXCEPT !.run_id = StrV("RUN003"), !.timestamp = StrV(TimeText(3)),
                     !.task_type = StrV("follow_up"), !.agent_version = StrV("B"),
                     !.abstained = BoolV(TRUE), !.error_occurred = BoolV(TRUE),
                     !.crm_stage = StrV("Renewal"),
                     !.workflow_stage = StrV("Deal Execution"),
                     !.time_saved_minutes = FloatV(750)],
    [ViewBase EXCEPT !.run_id = StrV("RUN004"), !.timestamp = StrV(TimeText(2)),
                     !.agent_version = StrV("NA"), !.user_accepted = BoolV(FALSE),
                     !.crm_stage = StrV(""), !.time_saved_minutes = FloatV(1250)] }

\* the log after log_agent_run was called with each record of s in turn
RECURSIVE FileOf(_)
FileOf(s) ==
  IF s = <<>> THEN NoFile
  ELSE log_agent_run(FileOf(SubSeq(s, 1, Len(s) - 1)), s[Len(s)])

FilterText(tokens) == TextOf(tokens)

\* the arguments of an audit listing, kept with the response
AuditArgs(limit, task_type, version, outcome) ==
  <<FilterText(task_type), FilterText(version), outcome, ToString(limit)>>

\* one DataLoader view method called on the loader of the current log;
\* tables are the results its query can return on the loaded table
ViewCall(name, tables) ==
  LET L == get_loader(file)
  IN /\ ~L.raised
     /\ file' = file
     /\ IF L.has_table
        THEN \E rows \in tables :
               resp' = Resp(name, "ok", "None", L.events \o <<"query">>, <<>>, <<>>, rows)
        ELSE resp' = ViewResp(name, "error", "CatalogError",
                              L.events \o <<"query_raised">>)

GetSummaryStats ==
  /\ resp = NoResp
  /\ ViewCall("get_summary_stats", get_summary_stats((get_loader(file).table)))
GetMetricsByVersion ==
  /\ resp = NoResp
  /\ ViewCall("get_metrics_by_version", get_metrics_by_version((get_loader(file).table)))
GetMetricsByTaskType ==
  /\ resp = NoResp
  /\ ViewCall("get_metrics_by_task_type", get_metrics_by_task_type((get_loader(file).table)))
GetDailyTrends ==
  /\ resp = NoResp
  /\ ViewCall("get_daily_trends", get_daily_trends((get_loader(file).table)))
GetPipelineFunnel ==
  /\ resp = NoResp
  /\ ViewCall("get_pipeline_funnel", get_pipeline_funnel((get_loader(file).table)))
GetMetricsByWorkflowStage ==
  /\ resp = NoResp
  /\ ViewCall("get_metrics_by_workflow_stage", get_metrics_by_workflow_stage((get_loader(file).table)))
GetTimeSavedSummary ==
  /\ resp = NoResp
  /\ ViewCall("get_time_saved_summary", get_time_saved_summary((get_loader(file).table)))
GetPromptVersionMetrics ==
  /\ resp = NoResp
  /\ ViewCall("get_prompt_version_metrics", get_prompt_version_metrics((get_loader(file).table)))

\* the listing asked of a loader: the rows, or the error of the engine
AuditListing(route, L, limit, task_type, version, outcome) ==
  LET args == AuditArgs(limit, task_type, version, outcome)
      A == get_audit_log(L.table, limit, task_type, version, outcome)
  IN IF ~L.has_table
       THEN resp' = Resp(route, "error", "CatalogError",
                         L.events \o <<"query_raised">>, <<>>, args, <<>>)
     ELSE IF A.error # "None"
       THEN resp' = Resp(route, "error", A.error,
                         L.events \o <<"query_raised">>, <<>>, args, <<>>)
     ELSE \E rows \in A.tables :
            resp' = Resp(route, "ok", "None", L.events \o <<"query">>, <<>>, args, rows)

\* DataLoader.get_audit_log called directly
GetAuditLog(limit, task_type, version, outcome) ==
  LET L == get_loader(file)
  IN /\ resp = NoResp
     /\ ~L.raised
     /\ file' = file
     /\ AuditListing("get_audit_log", L, limit, task_type, version, outcome)

\* GET /audit with its three query parameters: the summary and the prompt
\* version queries come first and fail on a missing table; the listing is
\* asked with limit=100 and the parameters as given ("" becoming None)
AuditFiltered(task_type, version, outcome) ==
  LET L == get_loader(file)
  IN /\ resp = NoResp
     /\ file' = file
     /\ IF L.raised \/ ~L.has_table
        THEN resp' = Resp("/audit", "error",
                          IF L.raised THEN L.error ELSE "CatalogError",
                          L.events \o (IF L.raised THEN <<>> ELSE <<"query_raised">>),
                          <<>>, AuditArgs(100, task_type, version, outcome), <<>>)
        ELSE AuditListing("/audit", [L EXCEPT !.events = @ \o <<"query", "query">>],
                          100, task_type, version, outcome)

InitViews ==
  /\ file \in {NoFile, SampleFile(fieldnames, 0), SampleFile(ColsWithout(OptionalCols), 2)}
                \cup {FileOf(s) : s \in UNION {[1..n -> ViewPool] : n \in 1..MaxViewRows}}
  /\ resp = NoResp

NextViews ==
  \/ GetSummaryStats
  \/ GetMetricsByVersion
  \/ GetMetricsByTaskType
  \/ GetDailyTrends
  \/ GetPipelineFunnel
  \/ GetMetricsByWorkflowStage
  \/ GetTimeSavedSummary
  \/ GetPromptVersionMetrics
  \/ \E limit \in {1, 2}, task_type \in { <<>>, <<"lead_summary">> }, version \in { <<>>, <<"A">> },
        outcome \in {"", "accepted", "rejected", "escalated", "error"} :
       GetAuditLog(limit, task_type, version, outcome)
  \/ \E task_type \in { <<>>, <<"lead_summary">>,
                         <<"x", "'", " ", "OR", " ", "'", "1", "'", "=", "'", "1">>,
                         <<"O", "'", "Brien">> },
        version \in { <<>>, <<"A">> },
        outcome \in {"", "accepted", "rejected", "escalated", "error"} :
       AuditFiltered(task_type, version, outcome)

SpecViews == InitViews /\ [][NextViews]_vars

(***************************************************************************)
(* A view evaluated once more on the same log: the by-task-type view, the  *)
(* funnel, and the unfiltered audit listing of two rows.                   *)
(***************************************************************************)
GetMetricsByTaskTypeAgain ==
  /\ resp.route \in {"none", "get_metrics_by_task_type"}
  /\ ViewCall("get_metrics_by_task_type", get_metrics_by_task_type((get_loader(file).table)))

GetPipelineFunnelAgain ==
  /\ resp.route \in {"none", "get_pipeline_funnel"}
  /\ ViewCall("get_pipeline_funnel", get_pipeline_funnel((get_loader(file).table)))

GetAuditLogAgain ==
  /\ resp.route \in {"none", "get_audit_log"}
  /\ ~get_loader(file).raised
  /\ file' = file
  /\ AuditListing("get_audit_log", get_loader(file), 2, <<>>, <<>>, "")

SpecRepeat ==
  /\ InitViews
  /\ [][\/ GetMetricsByTaskTypeAgain
        \/ GetPipelineFunnelAgain
        \/ GetAuditLogAgain]_vars

(***************************************************************************)
(* Logs in which one cell of a generator-written row holds a text that is  *)
(* not a value of the column's type, read by each page and by the sandbox. *)
(***************************************************************************)
\* the non-optional columns of the design with their declared types
RequiredCols ==
  <<"run_id", "timestamp", "user_id", "task_type", "resolution_time_seconds",
    "user_accepted", "abstained", "error_occurred">>

ColIndex(col) == CHOOSE j \in 1..Len(fieldnames) : fieldnames[j] = col

\* the generator's log of k rows with the cell of row i under col replaced
WithCell(k, i, col, text) ==
  LET f == SampleFile(fieldnames, k)
  IN [f EXCEPT !.lines[i + 1][ColIndex(col)] = text]

SpecSchema ==
  /\ file \in {f \in {SampleFile(fieldnames, k) : k \in SampleRowCounts}
                      \cup {WithCell(k, i, RequiredCols[c], text) :
                              k \in {n \in SampleRowCounts : n >= 1}, i \in {1, 2},
                              c \in 1..Len(RequiredCols), text \in {"fast", "maybe"}}
                  : Len(f.lines) >= 1}
  /\ resp = NoResp
  /\ [][\/ resp = NoResp /\ Home
        \/ resp = NoResp /\ Dashboard
        \/ resp = NoResp /\ Workflow
        \/ resp = NoResp /\ Audit
        \/ resp = NoResp /\ Explorer
        \/ resp = NoResp /\ RunQuery(<<"SEL_ALL">>)]_vars

(***************************************************************************)
(* The agent called on its own: every reply the API can give.              *)
(***************************************************************************)
\* the outcomes of the successive requests.post calls: each an exception, a
\* reply of status 500 or 503, or a reply of status 200 with a JSON body;
\* content is the text of choices[0].message.content
ReplySeqs ==
  [1..MaxReplies ->
     {[raised |-> TRUE, status_code |-> 0,
       body |-> [json |-> FALSE, choices |-> "absent", content |-> <<>>]]}
       \cup {[raised |-> FALSE, status_code |-> s,
              body |-> [json |-> FALSE, choices |-> "absent", content |-> <<>>]]
               : s \in {500, 503}}
       \cup {[raised |-> FALSE, status_code |-> 200, body |-> b] :
               b \in { [json |-> FALSE, choices |-> "absent", content |-> <<>>],
                       [json |-> TRUE, choices |-> "absent", content |-> <<>>],
                       [json |-> TRUE, choices |-> "empty", content |-> <<>>],
                       [json |-> TRUE, choices |-> "no_message", content |-> <<>>],
                       [json |-> TRUE, choices |-> "null_content", content |-> <<>>],
                       [json |-> TRUE, choices |-> "content",
                        content |-> <<" ","\n">>],
                       [json |-> TRUE, choices |-> "content",
                        content |-> <<" ","S","t","r","o","n","g"," ","f","i","t","."," ","C","o","n","f","i","d","e","n","c","e",":"," ","H","i","g","h","\n">>],
                       [json |-> TRUE, choices |-> "content",
                        content |-> <<"S","p","a","r","s","e"," ","d","a","t","a","."," ","C","o","n","f","i","d","e","n","c","e",":"," ","l","o","w">>],
                       [json |-> TRUE, choices |-> "content",
                        content |-> <<"S","e","n","d"," ","a"," ","f","o","l","l","o","w","-","u","p"," ","e","m","a","i","l",".">>] }}]

\* one call of _call_hf_api
CallHfApi ==
  /\ resp = NoResp
  /\ file' = file
  /\ \E hf_token \in BOOLEAN, replies \in ReplySeqs :
       LET r == call_hf_api(hf_token, replies)
       IN resp' = Resp("_call_hf_api", "ok", "None", r.events, <<>>,
                       [hf_token |-> hf_token, replies |-> replies],
                       <<r.result>>)

\* one call of process_task
ProcessTask ==
  /\ resp = NoResp
  /\ file' = file
  /\ \E task_type \in {"lead_summary", "follow_up", "NA"},
        context \in Contexts \cup {<<"C","a","n"," ","w","e"," ","b","e","a","t"," ","A","c","m","e">>},
        hf_token \in BOOLEAN, replies \in ReplySeqs :
       LET r == process_task_response(task_type, context, hf_token, replies)
       IN resp' = Resp("process_task", "ok", "None", r.events, <<>>,
                       [task_type |-> task_type, context |-> context,
                        hf_token |-> hf_token, replies |-> replies],
                       <<r>>)

SpecAgent ==
  /\ file = NoFile
  /\ resp = NoResp
  /\ [][CallHfApi \/ ProcessTask]_vars

(***************************************************************************)
(* Overlapping emitter requests on one event loop.  Every handler is a     *)
(* coroutine: it runs without interruption from one await to the next.     *)
(* resp.rows holds the requests in flight, resp.events what was written.   *)
(***************************************************************************)
\* number of requests in flight
MaxHandlers == 2

\* the dict a request in flight hands to log_agent_run
HandlerRunData(h) ==
  IF h.route = "/upload"
  THEN RunData("WEB", "web_upload", "Web Upload", h.task_type, process_task(<<>>, 125), h.id, 1)
  ELSE RunData("PLY", "web_playground", "Playground", h.task_type, process_task(<<>>, 125), h.id, 1)

\* what log_agent_run writes, as events
Written(file_exists) ==
  IF file_exists THEN <<"writerow">> ELSE <<"writeheader", "writerow">>

\* log_agent_run suspended between its exists test and its write
log_in_handler_yielding(h, f) ==
  IF h.pc = "checked"
  THEN [file |-> [exists |-> TRUE,
                  lines |-> f.lines
                              \o (IF h.file_exists THEN <<>> ELSE <<fieldnames>>)
                              \o <<WriteRow(fieldnames, HandlerRunData(h))>>],
        handler |-> [h EXCEPT !.pc = "done"],
        events |-> Written(h.file_exists)]
  ELSE [file |-> f,
        handler |-> [h EXCEPT !.pc = "checked", !.file_exists = f.exists],
        events |-> <<>>]

\* the call of log_agent_run inside a handler: a plain function call, so
\* the exists test and the write happen in one step of the coroutine
log_in_handler(h, f) ==
  [file |-> log_agent_run(f, HandlerRunData(h)),
   handler |-> [h EXCEPT !.pc = "done", !.file_exists = f.exists],
   events |-> Written(f.exists)]

InFlight(handlers, events) ==
  Resp("overlap", "ok", "None", events, <<>>, <<>>, handlers)

\* a handler runs up to its return
RunToReturn(i) ==
  LET r == log_in_handler(resp.rows[i], file)
  IN /\ file' = r.file
     /\ resp' = InFlight([resp.rows EXCEPT ![i] = r.handler], resp.events \o r.events)

\* agent_query has no await: it runs from its start to its return
AgentQueryRuns(i) ==
  /\ resp.rows[i].route = "/agent/query"
  /\ resp.rows[i].pc \in {"new", "checked"}
  /\ RunToReturn(i)

\* upload_file up to `await file.read()`, where it may be suspended
UploadFileAwaits(i) ==
  /\ resp.rows[i].route = "/upload"
  /\ resp.rows[i].pc = "new"
  /\ file' = file
  /\ resp' = InFlight([resp.rows EXCEPT ![i].pc = "reading"], resp.events \o <<"await">>)

\* upload_file from `await file.read()` to its return
UploadFileResumes(i) ==
  /\ resp.rows[i].route = "/upload"
  /\ resp.rows[i].pc \in {"reading", "checked"}
  /\ RunToReturn(i)

SpecOverlap ==
  /\ file = NoFile
  /\ \E routes \in [1..MaxHandlers -> {"/agent/query", "/upload"}],
        task_types \in [1..MaxHandlers -> {"lead_summary", "NA"}] :
       resp = InFlight([i \in 1..MaxHandlers |->
                          [id |-> i, route |-> routes[i], task_type |-> task_types[i],
                           pc |-> "new", file_exists |-> FALSE]],
                       <<>>)
  /\ [][\E i \in 1..MaxHandlers :
          \/ AgentQueryRuns(i)
          \/ UploadFileAwaits(i)
          \/ UploadFileResumes(i)]_vars

(***************************************************************************)
(* Properties.                                                             *)
(***************************************************************************)
PageRoutes == {"/", "/dashboard", "/workflow", "/audit", "/explorer"}

\* the records of a log file: its lines after the header
Records(f) == IF f.lines = <<>> THEN <<>> ELSE Tail(f.lines)

IsPrefix(s, t) == Len(s) <= Len(t) /\ SubSeq(t, 1, Len(s)) = s

\* a loaded value b equals the written value a: the same text, the same
\* truth value, the same number, the same instant
SameValue(a, b) ==
  CASE a.k = "str" -> IF b.k = "ts" THEN TimeText(b.n) = a.s ELSE b = a
    [] a.k = "int" -> b = a \/ b = FloatV(100 * a.n)
    [] a.k = "float" -> b = a \/ (a.n % 100 = 0 /\ b = IntV(a.n \div 100))
    [] OTHER -> b = a

SameRecord(R, row) == \A col \in Range(fieldnames) : SameValue(R[col], row[col])

\* C1: round trip.  After log_agent_run(R) for a valid record R, on a log
\* reached by earlier appends, a full load succeeds and the loaded record
\* set contains a record whose 16 fields equal those of R.
C1_RoundTrip ==
  resp.route = "log_agent_run" =>
    LET R == resp.logged[1]
        L == load_csv_to_db(file)
    IN L.ok /\ \E i \in 1..Len(L.table) : SameRecord(R, L.table[i])

\* the keywords as the design lists them
C2_Keywords ==
  { <<"D","R","O","P">>, <<"D","E","L","E","T","E">>, <<"I","N","S","E","R","T">>,
    <<"U","P","D","A","T","E">>, <<"C","R","E","A","T","E">>, <<"A","L","T","E","R">>,
    <<"T","R","U","N","C","A","T","E">> }

\* C2: the sandbox validator accepts a query text if and only if its
\* trimmed, upper-cased form starts with SELECT and contains none of the
\* seven keywords anywhere; a query that fails the test is rejected before
\* any loader is created, and its statements are never executed.
C2_ValidatorAcceptsIff ==
  resp.route = "/explorer/query" =>
    LET text == Strip(UpperText(QueryText(resp.query)))
        passes == /\ StartsWith(text, <<"S","E","L","E","C","T">>)
                  /\ \A w \in C2_Keywords : ~Contains(text, w)
    IN /\ passes <=> resp.events[1] = "accept"
       /\ ~passes => /\ resp.events[1] = "reject"
                     /\ resp.status # "ok"
                     /\ Range(resp.events) \cap {"execute", "execute_raised"} = {}

\* C2 happens: SELECT * FROM agent_runs;DROP TABLE agent_runs was rejected
\* on a log with one record
C2_Witness ==
  /\ resp.query = <<"SEL_ALL", "SEMI", "DROP">>
  /\ resp.events[1] = "reject"
  /\ resp.error = "Forbidden SQL keyword: DROP. Only SELECT queries allowed."
  /\ file = SampleFile(fieldnames, 1)

\* C3: a POST /explorer/query whose text the validator accepts leaves the
\* log file as it was before the request.
C3_AcceptedQueryKeepsLog ==
  [][(resp'.route = "/explorer/query" /\ resp'.events[1] = "accept") => file' = file]_vars

\* C4: in every reachable log state, every record with abstained = true has
\* user_accepted = false.
C4_AbstainedNotAccepted ==
  LET L == load_csv_to_db(file)
  IN (file.exists /\ L.ok) =>
       \A i \in 1..Len(L.table) :
         L.table[i].abstained = BoolV(TRUE) => L.table[i].user_accepted = BoolV(FALSE)

\* C5: no two records of the log share a run_id.
C5_RunIdUnique ==
  LET L == load_csv_to_db(file)
  IN (file.exists /\ L.ok) =>
       \A i, j \in 1..Len(L.table) :
         i # j => L.table[i].run_id # L.table[j].run_id

\* C6: while the log file does not exist, every page request (/, /dashboard,
\* /workflow, /audit, /explorer) is rendered in the empty state with
\* error = None, never in the error state.
C6_MissingLogRendersEmpty ==
  (~file.exists /\ resp.route \in PageRoutes) =>
     resp.status = "ok" /\ resp.error = "None"

\* C7: no request to a page or to /explorer/query lets an exception escape
\* its handler, in any log state and for any query text.
C7_NoExceptionEscapes ==
  resp.route \in PageRoutes \cup {"/explorer/query"} => resp.status # "escaped"

\* the defaults as the design lists them
C8_Default(col) ==
  CASE col = "workflow_stage" -> StrV("Pipeline Generation")
    [] col = "time_saved_minutes" -> FloatV(0)
    [] col = "prompt_version" -> StrV("v1.0")

\* C8: loading a log whose header lacks some of workflow_stage,
\* time_saved_minutes, prompt_version yields one record per row in which
\* each missing column holds its default and every column present in the
\* file holds the value that was stored (read through SELECT * FROM
\* agent_runs).
C8_LegacyDefaults ==
  (/\ file \in {SampleFile(ColsWithout(m), k) :
                   m \in (SUBSET OptionalCols) \ {{}}, k \in SampleRowCounts}
   /\ resp.route = "/explorer/query"
   /\ resp.query = <<"SEL_ALL">>) =>
     /\ resp.status = "ok"
     /\ Len(resp.rows) = Len(file.lines) - 1
     /\ \A i \in 1..Len(resp.rows) : \A col \in Range(fieldnames) :
          IF col \in Range(file.lines[1])
          THEN SameValue(SampleRecords[i][col], resp.rows[i][col])
          ELSE resp.rows[i][col] = C8_Default(col)

\* C8 happens: a 13-column log with two records was loaded and read
C8_Witness ==
  /\ file = SampleFile(ColsWithout(OptionalCols), 2)
  /\ resp.route = "/explorer/query"
  /\ resp.status = "ok"
  /\ Len(resp.rows) = 2
  /\ resp.rows[2].prompt_version = StrV("v1.0")
  /\ resp.rows[2].opportunity_value = IntV(25000)

\* C9: after POST /agent/query on a log whose header has only the 13
\* pre-evolution columns, loading yields every old record with the three
\* defaults and, last, the new record with its own 16 values.
C9_LegacyAppendLoads ==
  (file.exists /\ file.lines[1] = ColsWithout(OptionalCols) /\ resp.route = "/agent/query") =>
     LET L == load_csv_to_db(file)
         n == Len(file.lines) - 1
     IN /\ L.ok
        /\ Len(L.table) = n
        /\ SameRecord(resp.logged[1], L.table[n])
        /\ \A i \in 1..(n - 1) : \A col \in OptionalCols :
             L.table[i][col] = C8_Default(col)

\* C10: the log is append-only.  For every operation, the records of the
\* log before it are a prefix of the records after it.
C10_AppendOnly ==
  [][IsPrefix(Records(file), Records(file'))]_vars

\* the 16 canonical field names in the fixed order
C11_Header ==
  <<"run_id", "timestamp", "user_id", "task_type", "agent_version",
    "resolution_time_seconds", "user_accepted", "user_rating", "abstained",
    "error_occurred", "lead_source", "crm_stage", "opportunity_value",
    "workflow_stage", "time_saved_minutes", "prompt_version">>

\* C11: starting from a missing log, every log_agent_run call leaves the
\* file as one header row (the canonical names), then the data rows that
\* were there before the call, then the row of the record just passed; so
\* after n calls there are one header and n data rows in call order, and
\* only the creating call writes the header.
C11_HeaderThenRowsInCallOrder ==
  [][resp'.route = "log_agent_run" =>
       file'.lines = <<C11_Header>> \o Records(file)
                       \o <<[j \in 1..16 |-> PyStr(resp'.logged[1][C11_Header[j]])]>>]_vars

\* C11 happens: two calls were made on the missing log
C11_Witness ==
  /\ resp.route = "log_agent_run"
  /\ Len(file.lines) = 3
  /\ file.lines[1] = C11_Header
  /\ file.lines[3][4] = resp.logged[1].task_type.s

\* C12: every task invocation through /agent/query or /upload (allowed
\* extension) appends exactly one record to the log, however the task ends:
\* by a result, by abstention, or by agent.process_task raising.
C12_OneRecordPerInvocation ==
  [][(/\ resp'.route \in {"/agent/query", "/upload"}
      /\ Range(resp'.events) \cap {"process_task", "process_task_raised"} # {})
     => Len(Records(file')) = Len(Records(file)) + 1]_vars

GroupingViews ==
  {"get_metrics_by_version", "get_metrics_by_task_type", "get_metrics_by_workflow_stage",
   "get_daily_trends", "get_pipeline_funnel", "get_time_saved_summary",
   "get_prompt_version_metrics"}

\* the COUNT(*) column of a grouping view's row
RowCount(row) ==
  IF "total_tasks" \in DOMAIN row THEN row.total_tasks
  ELSE IF "count" \in DOMAIN row THEN row.count
  ELSE row.total_runs

\* C13: the per-group counts of every grouping view add up to total_runs of
\* get_summary_stats on the same loaded record set, NULL keys included
C13_GroupCountsSumToTotal ==
  (resp.route \in GroupingViews /\ resp.status = "ok") =>
    \A summary \in get_summary_stats(load_csv_to_db(file).table) :
      SumOver(DOMAIN resp.rows, [i \in DOMAIN resp.rows |-> RowCount(resp.rows[i])])
        = summary[1].total_runs

C13_Witness ==
  /\ resp.route = "get_time_saved_summary"
  /\ resp.status = "ok"
  /\ Len(resp.rows) = 2
  /\ \E i \in DOMAIN resp.rows : resp.rows[i].task_type = Null
  /\ Len(Records(file)) = 3

\* C14: the by-version view has one row per distinct agent_version of the
\* loaded records; its total_tasks is the number of records of that version
\* and its accuracy_pct is 100 x (those with user_accepted true) / total_tasks
C14_ByVersion ==
  (resp.route = "get_metrics_by_version" /\ resp.status = "ok") =>
    LET T == load_csv_to_db(file).table
        versions == {T[i].agent_version : i \in DOMAIN T}
        Of(v) == {i \in DOMAIN T : T[i].agent_version = v}
    IN /\ Len(resp.rows) = Cardinality(versions)
       /\ {resp.rows[j].agent_version : j \in DOMAIN resp.rows} = versions
       /\ \A j \in DOMAIN resp.rows :
            LET row == resp.rows[j]
                accepted == {i \in Of(row.agent_version) : T[i].user_accepted = BoolV(TRUE)}
            IN /\ row.total_tasks = Cardinality(Of(row.agent_version))
               /\ Len(row.accuracy_pct) = 2
               /\ row.accuracy_pct[1] * row.total_tasks
                    = 100 * Cardinality(accepted) * row.accuracy_pct[2]

\* versions A, A, B with user_accepted true, false, true: A 2 and 50%, B 1
\* and 100%
C14_Witness ==
  /\ resp.route = "get_metrics_by_version"
  /\ Len(Records(file)) = 3
  /\ [i \in 1..3 |-> Records(file)[i][5]] = <<"A", "A", "B">>
  /\ [i \in 1..3 |-> Records(file)[i][7]] = <<"True", "False", "True">>
  /\ Len(resp.rows) = 2
  /\ resp.rows[1].agent_version = StrV("A") /\ resp.rows[1].total_tasks = 2
  /\ resp.rows[1].accuracy_pct[1] = 50 * resp.rows[1].accuracy_pct[2]
  /\ resp.rows[2].agent_version = StrV("B") /\ resp.rows[2].total_tasks = 1
  /\ resp.rows[2].accuracy_pct[1] = 100 * resp.rows[2].accuracy_pct[2]

C17_Stages ==
  <<"MQL", "SAL", "SQL", "Discovery", "Technical Validation", "Value/Impact",
    "Negotiation", "Closed Won", "Closed Lost">>

C17_Recognised(v) == v.k = "str" /\ v.s \in Range(C17_Stages)

C17_Position(v) == CHOOSE p \in 1..Len(C17_Stages) : C17_Stages[p] = v.s

\* C17: the funnel rows of recognised stages come in the fixed order MQL ..
\* Closed Lost, and every row of another stage comes after all of them
C17_FunnelOrder ==
  (resp.route = "get_pipeline_funnel" /\ resp.status = "ok") =>
    \A i, j \in DOMAIN resp.rows :
      LET a == resp.rows[i].crm_stage
          b == resp.rows[j].crm_stage
      IN i < j =>
           /\ C17_Recognised(b) => C17_Recognised(a)
           /\ (C17_Recognised(a) /\ C17_Recognised(b)) => C17_Position(a) < C17_Position(b)

\* logged in the order Renewal, Closed Lost, MQL; listed MQL, Closed Lost,
\* Renewal
C17_Witness ==
  /\ resp.route = "get_pipeline_funnel"
  /\ Len(Records(file)) = 3
  /\ [i \in 1..3 |-> Records(file)[i][12]] = <<"Renewal", "Closed Lost", "MQL">>
  /\ [j \in DOMAIN resp.rows |-> resp.rows[j].crm_stage]
       = <<StrV("MQL"), StrV("Closed Lost"), StrV("Renewal")>>

\* the boolean-field predicate the design gives each outcome
C15_Holds(outcome, r) ==
  CASE outcome = "accepted" -> r.user_accepted = BoolV(TRUE)
    [] outcome = "rejected" -> r.user_accepted = BoolV(FALSE)
    [] outcome = "escalated" -> r.abstained = BoolV(TRUE)
    [] outcome = "error" -> r.error_occurred = BoolV(TRUE)

\* C15: get_audit_log(limit=L, outcome=o) returns min(L, k) of the k records
\* that satisfy o's predicate, newest first, none older than a record left
\* out, and no record that fails the predicate
C15_AuditByOutcome ==
  \A outcome \in {"accepted", "rejected", "escalated", "error"}, L \in {1, 2} :
    (/\ resp.route = "get_audit_log"
     /\ resp.status = "ok"
     /\ resp.query = <<"", "", outcome, ToString(L)>>) =>
      LET T == load_csv_to_db(file).table
          K == {i \in DOMAIN T : C15_Holds(outcome, T[i])}
          n == Len(resp.rows)
      IN /\ n = (IF L <= Cardinality(K) THEN L ELSE Cardinality(K))
         /\ \A j \in 1..n : C15_Holds(outcome, resp.rows[j])
         /\ \A j \in 1..(n - 1) : resp.rows[j].timestamp.n >= resp.rows[j + 1].timestamp.n
         /\ \E f \in [1..n -> K] :
              /\ \A i, j \in 1..n : i # j => f[i] # f[j]
              /\ \A j \in 1..n : resp.rows[j] = T[f[j]]
              /\ \A i \in K \ Range(f) : \A j \in 1..n :
                   T[i].timestamp.n <= resp.rows[j].timestamp.n

\* two escalated records and one that is not, limit 1: the newer escalated
\* record alone is returned
C15_Witness ==
  /\ resp.route = "get_audit_log"
  /\ resp.query = <<"", "", "escalated", "1">>
  /\ [i \in DOMAIN Records(file) |-> Records(file)[i][1]] = <<"RUN003", "PLYA1B2C1", "RUN002">>
  /\ [j \in DOMAIN resp.rows |-> resp.rows[j].run_id] = <<StrV("RUN003")>>

\* C16: every record the /audit listing returns has task_type equal to the
\* task_type filter text and agent_version equal to the version filter text
C16_FiltersCompareAsValues ==
  \A task_type \in { <<>>, <<"lead_summary">>,
                         <<"x", "'", " ", "OR", " ", "'", "1", "'", "=", "'", "1">>,
                         <<"O", "'", "Brien">> },
        version \in { <<>>, <<"A">> },
        outcome \in {"", "accepted", "rejected", "escalated", "error"} :
    (/\ resp.route = "/audit"
     /\ resp.status = "ok"
     /\ resp.query = AuditArgs(100, task_type, version, outcome)) =>
      \A j \in DOMAIN resp.rows :
        /\ task_type # <<>> => resp.rows[j].task_type = StrV(FilterText(task_type))
        /\ version # <<>> => resp.rows[j].agent_version = StrV(FilterText(version))

\* the mapping table of the design
C18_Mapping(task_type) ==
  IF task_type = "lead_summary" THEN "Pipeline Generation"
  ELSE IF task_type \in {"follow_up", "risk_analysis"} THEN "Deal Execution"
  ELSE IF task_type = "data_hygiene" THEN "Onboarding & Adoption"
  ELSE "Pipeline Generation"

\* C18: the record an emitter appends has the workflow_stage the fixed
\* mapping gives its task_type, "Pipeline Generation" for any other type
C18_EmittedStageIsMapped ==
  [][(resp'.route \in {"/agent/query", "/upload"} /\ resp'.logged # <<>>) =>
       LET appended == file'.lines[Len(file'.lines)]
       IN /\ Len(file'.lines) = Len(file.lines) + (IF file.exists THEN 1 ELSE 2)
          /\ appended[14] = C18_Mapping(appended[4])]_vars

C18_Witness ==
  /\ resp.route = "/agent/query"
  /\ resp.logged # <<>>
  /\ file.lines[Len(file.lines)][4] = "data_hygiene"
  /\ file.lines[Len(file.lines)][14] = "Onboarding & Adoption"

\* C19: every record of a loaded record set, as a query over agent_runs
\* returns it, has the workflow_stage the mapping gives its task_type
C19_LoadedStageIsMapped ==
  (resp.route = "/explorer/query" /\ resp.status = "ok") =>
    \A j \in DOMAIN resp.rows :
      resp.rows[j].workflow_stage = StrV(C18_Mapping(resp.rows[j].task_type.s))

\* C20: a rejected sandbox query is told the rule it broke: a text that does
\* not start with SELECT is rejected as not a SELECT, and a text that starts
\* with SELECT and contains a forbidden keyword is rejected naming a keyword
\* it contains
C20_ReasonIsRuleBroken ==
  (resp.route = "/explorer/query" /\ resp.status = "error" /\ resp.events[1] = "reject") =>
    LET text == Strip(UpperText(QueryText(resp.query)))
    IN IF ~StartsWith(text, <<"S","E","L","E","C","T">>)
       THEN resp.error = "Only SELECT queries are allowed."
       ELSE \E w \in C2_Keywords :
              /\ Contains(text, w)
              /\ resp.error = "Forbidden SQL keyword: " \o TextOf(w)
                                \o ". Only SELECT queries allowed."

\* can the text of a cell be parsed to the type the design declares for col
C21_Parses(col, text) ==
  CASE col \in {"run_id", "user_id", "task_type"} -> text # ""
    [] col = "timestamp" -> text \in TimeTexts
    [] col = "resolution_time_seconds" -> text \in IntTexts \cup FloatTexts
    [] OTHER -> text \in {"True", "False"}

C21_Unparsed(f) ==
  \E i \in 2..Len(f.lines) : \E c \in 1..Len(RequiredCols) :
    ~C21_Parses(RequiredCols[c], f.lines[i][ColIndex(RequiredCols[c])])

\* C21: when a row of the log has a non-optional cell that cannot be parsed
\* to its declared type, the load fails: no request is answered from a
\* table loaded from that log
C21_UnparsedRowFailsLoad ==
  (resp.route \in PageRoutes \cup {"/explorer/query"} /\ C21_Unparsed(file)) =>
    /\ resp.status # "ok"
    /\ "load" \notin Range(resp.events)

\* C22: on a header-only log get_summary_stats answers total_runs = 0 with
\* the three rates NULL, and every grouping view answers with no rows; none
\* of them raises
C22_EmptyInputNoFault ==
  (file.exists /\ Len(file.lines) = 1) =>
    /\ resp.route = "get_summary_stats" =>
         /\ resp.status = "ok"
         /\ Len(resp.rows) = 1
         /\ resp.rows[1].total_runs = 0
         /\ resp.rows[1].acceptance_rate = <<>>
         /\ resp.rows[1].abstention_rate = <<>>
         /\ resp.rows[1].error_rate = <<>>
    /\ resp.route \in GroupingViews => (resp.status = "ok" /\ resp.rows = <<>>)

C22_Witness ==
  /\ file = SampleFile(fieldnames, 0)
  /\ resp.route = "get_summary_stats"
  /\ resp.status = "ok"
  /\ resp.rows[1].total_runs = 0
  /\ resp.rows[1].acceptance_rate = <<>>

\* C23: a sandbox request that lists agent_runs is answered from the log as
\* it is when the request is made: one row per record of the file, and, when
\* the step before was an emitter's log_agent_run(R), R as the last row
C23_ReadsReflectLog ==
  [][(/\ resp'.route = "/explorer/query"
      /\ resp'.query = <<"SEL_ALL">>
      /\ resp'.status = "ok") =>
       /\ Len(resp'.rows) = Len(Records(file))
       /\ \A j \in DOMAIN resp'.rows : resp'.rows[j].run_id = StrV(Records(file)[j][1])
       /\ resp.logged # <<>> =>
            resp'.rows[Len(resp'.rows)].run_id = resp.logged[1].run_id]_vars

\* a record appended by POST /agent/query to a log of one record is the
\* second row of the next listing
C23_Witness ==
  /\ resp.route = "/explorer/query"
  /\ resp.query = <<"SEL_ALL">>
  /\ resp.status = "ok"
  /\ Len(Records(file)) = 2
  /\ Records(file)[1][1] = "RUN001"
  /\ Len(resp.rows) = 2
  /\ resp.rows[2].run_id = StrV("PLYA1B2C1")

\* C24: a view evaluated twice on the same log with the same arguments
\* returns the same rows in the same order
C24_ViewsDeterministic ==
  [][(/\ resp.route = resp'.route
      /\ resp.query = resp'.query
      /\ resp.status = "ok"
      /\ resp'.status = "ok"
      /\ file' = file) => resp'.rows = resp.rows]_vars

\* how often an event occurs in a handler's run
C25_Count(events, e) == Cardinality({i \in 1..Len(events) : events[i] = e})

\* C25: when a handler has returned, it has called close() once for every
\* DataLoader it opened
C25_EveryLoaderClosed ==
  resp.route \in PageRoutes \cup {"/explorer/query"} =>
    C25_Count(resp.events, "close") = C25_Count(resp.events, "connect")

C26_Escalations == {ESCALATION_RESPONSE(ESCALATION_TYPES[t]) : t \in DOMAIN ESCALATION_TYPES}

\* C26: process_task abstains exactly when the task context matches an
\* escalation pattern, then with confidence "escalation", the escalation
\* text and no API call; otherwise abstained is false, confidence is high,
\* medium or low, and the response is non-empty text, the mock response
\* whenever the API call yields None.
C26_EscalateOrAnswer ==
  resp.route = "process_task" =>
    LET q == resp.query
        r == resp.rows[1]
    IN /\ r.abstained = SearchAny(ESCALATION_PATTERNS, q.context)
       /\ r.abstained =>
            /\ r.confidence = "escalation"
            /\ r.response \in C26_Escalations
            /\ resp.events = <<>>
       /\ ~r.abstained =>
            /\ r.confidence \in {"high", "medium", "low"}
            /\ r.response # <<>>
            /\ call_hf_api(q.hf_token, q.replies).result = <<>>
                 => r.response = get_mock_response(q.task_type, q.context) \o (<<"\n","\n","_","N","o","t","e",":"," ","U","s","i","n","g"," ","m","o","c","k"," ","r","e","s","p","o","n","s","e","."," ","S","e","t"," ","H","F","_","T","O","K","E","N"," ","e","n","v","i","r","o","n","m","e","n","t"," ","v","a","r","i","a","b","l","e"," ","t","o"," ","e","n","a","b","l","e"," ","r","e","a","l"," ","L","L","M",".","_">>)

C27_Posts(events) == Cardinality({i \in 1..Len(events) : events[i] = "post"})

\* C27: _call_hf_api posts at most twice: never without a token, a second
\* time only after the first reply had status 503; it returns text only
\* from a status-200 reply that carries at least one choice, and None
\* otherwise.
C27_AtMostTwoPosts ==
  resp.route = "_call_hf_api" =>
    LET q == resp.query
        posts == C27_Posts(resp.events)
        result == resp.rows[1]
    IN /\ posts <= 2
       /\ ~q.hf_token => posts = 0
       /\ posts = 2 => ~q.replies[1].raised /\ q.replies[1].status_code = 503
       /\ result # <<>> =>
            /\ posts >= 1
            /\ LET last == q.replies[posts]
               IN /\ ~last.raised
                  /\ last.status_code = 200
                  /\ last.body.json
                  /\ last.body.choices \notin {"absent", "empty"}

C27_Witness ==
  /\ resp.route = "_call_hf_api"
  /\ C27_Posts(resp.events) = 2
  /\ resp.rows[1] # <<>>

C29_Allowed == {".csv", ".txt", ".json"}

\* C29: an /upload request whose file extension is not .csv, .txt or .json
\* is answered with an error and changes nothing: no file is saved, the
\* agent is not invoked and the log is unchanged.
C29_RejectedUploadChangesNothing ==
  [][(/\ resp'.route = "/upload"
      /\ resp'.query # <<>>
      /\ file_ext(resp'.query[1]) \notin C29_Allowed)
       => /\ resp'.status = "error"
          /\ resp'.error = "Invalid file type"
          /\ resp'.events = <<>>
          /\ resp'.logged = <<>>
          /\ file' = file]_vars

C29_Witness ==
  /\ resp.route = "/upload"
  /\ resp.query # <<>>
  /\ file_ext(resp.query[1]) = ".exe"
  /\ resp.status = "error"
  /\ file.exists

C28_Done == {i \in 1..Len(resp.rows) : resp.rows[i].pc = "done"}
C28_Headers == {j \in 1..Len(file.lines) : file.lines[j] = fieldnames}

\* C28: overlapping /agent/query and /upload requests of one process do
\* not interleave inside log_agent_run: starting from a missing log, under
\* every interleaving the header is written exactly once, as the first
\* line, and every finished request's row is one whole line after it.
C28_HeaderOnceRowsWhole ==
  resp.route = "overlap" =>
    /\ file.exists <=> C28_Done # {}
    /\ file.exists =>
         /\ C28_Headers = {1}
         /\ Len(file.lines) = 1 + Cardinality(C28_Done)
         /\ \A i \in C28_Done :
              \E j \in 2..Len(file.lines) :
                file.lines[j] = WriteRow(fieldnames, HandlerRunData(resp.rows[i]))
    /\ Cardinality({k \in 1..Len(resp.events) : resp.events[k] = "writeheader"})
         = (IF C28_Done = {} THEN 0 ELSE 1)

C28_Witness ==
  /\ resp.route = "overlap"
  /\ C28_Done = 1..Len(resp.rows)
  /\ resp.events[1] = "await"
  /\ resp.rows[1].route = "/upload"
  /\ file.lines[Len(file.lines)] = WriteRow(fieldnames, HandlerRunData(resp.rows[1]))

====
